---- MODULE Spec2Model ----
(***************************************************************************)
(* Storage / transaction substrate of simpledb: file blocks, write-ahead   *)
(* log, buffer pool, lock table, transactions (commit, rollback, recover). *)
(*                                                                         *)
(* The specifications:                                                     *)
(*   Spec     : one step per public Transaction call (create, pin, unpin,  *)
(*              get_int, set_int, commit, rollback, recover) plus a crash  *)
(*              of the process; the calls of different transactions        *)
(*              interleave.                                                *)
(*   SpecLock : the calls of Spec that take or release locks, interleaved. *)
(*   SpecWal  : one transaction after the other, logged and unlogged       *)
(*              writes, pages written by flush and by eviction.            *)
(*   SpecTx   : one transaction after the other, commit and rollback.      *)
(*   SpecRec  : one transaction after the other, crash, restart, recover.  *)
(*   SpecBM   : one step per buffer-mutex critical section of              *)
(*              BufferManager::pin / unpin, for threads that share one     *)
(*              BufferManager.                                             *)
(*   SpecPool : BufferManager::pin / unpin as whole calls of one caller    *)
(*              at a time.                                                 *)
(*   SpecLog  : LogManager::append as a whole call, and the forward and    *)
(*              reverse log iterators read to their end.                   *)
(*   SpecAppend : one step per log_page critical section of                *)
(*              LogManager::append, for threads sharing one LogManager.    *)
(*   SpecLT   : one step per DashMap entry access of LockTable::slock /    *)
(*              xlock / promote_to_xlock / unlock, with park and unpark.   *)
(*   SpecEof  : Transaction::size and append with pin, set_int, unpin and  *)
(*              commit, on a data file that starts empty.                  *)
(*   SpecFile : one step per open_files critical section of                *)
(*              FileManager::append and write, for threads sharing one     *)
(*              FileManager.                                               *)
(*   SpecEnd  : the calls of Spec, with commit and rollback recording the  *)
(*              locks and pins the transaction is left with.               *)
(*   SpecPins : BufferList::pin / unpin / unpin_all of two transactions.   *)
(*   SpecCreate : TransactionFactory::create of threads sharing the        *)
(*              factory, one step per log_page critical section.           *)
(*   SpecScan : TableScan::before_first, move_next, insert, set_int and    *)
(*              delete, and RecordPage::insert_after, on one table.        *)
(*   SpecProduct : ProductScan over two scans of 0..MaxRows records.       *)
(*   SpecQuery : exec_query of select F from T1, T2 where P and the moves  *)
(*              of the scan it returns.                                    *)
(*   SpecFormat : RecordPage::format and Transaction::set_int on one       *)
(*              block, with the log records they append.                   *)
(*   SpecStat : StatManagerImpl::get_field_stat over a catalog of up to    *)
(*              two tables.                                                *)
(*   SpecPage : Page::set_int, set_bytes and set_string on a page of       *)
(*              PageSize bytes, integers in four big-endian bytes.         *)
(*   SpecParse : Parser::query on select statements, and the parse of the  *)
(*              text the parsed query is written back to.                  *)
(*   SpecCM : ConcurrencyManager::slock, xlock and release of the          *)
(*              transactions over the shared LockTable.                    *)
(*   SpecWait : BufferManager::pin with its wait_timeout loop, and unpin   *)
(*              with its notify_all; SpecWaitFair adds fair threads.       *)
(*   SpecLTFair : the steps of SpecLT for the first NumUpgraders           *)
(*              threads, with fair threads.                                *)
(*   SpecSelect : SelectScan and ProjectScan over a child scan, the        *)
(*              ReadScan and UpdateScan calls.                             *)
(*   SpecDup : the steps of SpecBM on a pool of NumDupBuffs buffers.       *)
(*   SpecRestart : one transaction after the other; the process stops      *)
(*              and SimpleDB::with_params starts it again, no recover.     *)
(* Data files hold blocks 0..MaxBlock of one file; each page is a map      *)
(* from the offsets in Offsets to an int.  file_len is the length of the   *)
(* data file in blocks; a write at or past the end makes the file longer,  *)
(* a read past the end leaves the page as it was.                          *)
(***************************************************************************)
EXTENDS Integers, Sequences, FiniteSets, TLC

\* ------------------------------------------------------------------ bounds
NumBuffs == 1
MaxBlock == 1
MaxOffset == 0
MaxValue == 1
NumTx == 2
MaxLog == 6
MaxLogWal == 4
MaxLogTx == 6
MaxLogRec == 6
MaxHeld == 2
MaxDrift == 1
MaxTxNum == 2
MaxPins == 1
MaxQueue == 1
LogBlockSize == 64
NumThreads == 2
MaxAppend == 5
MaxCalls == 3
NumLockers == 3
MaxWaiting == 2
MaxLogEof == 2
NumAppenders == 3
MaxLogEnd == 4
MaxListPins == 2
MaxCreate == 3
MaxTableBlocks == 2
TableBlockSize == 20
MaxRows == 4
MaxTableRows == 2
MaxFormatLog == 3
PageSize == 10
MaxPageOps == 2
MaxBytesLen == 2
MaxStrLen == 2
MaxStatRows == 1
MaxRebuilds == 2
MaxTerms == 2
MaxPinCalls == 2
MaxRounds == 1
NumUpgraders == 2
MaxSelRows == 2
NumDupBuffs == 2
\* the threshold of get_field_stat
RefreshThreshold == 100

\* ------------------------------------------------------- program constants
INTEGER_BYTE_LEN == 4
FileNameLen == 8

Buffers == 1..NumBuffs
Blocks == 0..MaxBlock
\* BlockNumber::EndOfFile, the sentinel block of the data file, as a lock key
EndOfFile == MaxBlock + 1
LockKeys == Blocks \cup {EndOfFile}
Offsets == 0..MaxOffset
Values == 0..MaxValue
Txs == 1..NumTx
Threads == 1..NumThreads
Lockers == 1..NumLockers
Appenders == 1..NumAppenders

\* Option::None for block numbers, transaction numbers and LSNs
None == -1
\* "no buffer" (Option<Arc<Mutex<Buffer>>>::None)
NoBuf == 0

VARIABLES
    buffer_pool,     \* BufferManager.buffer_pool : Buffers -> Buffer
    num_available,   \* BufferManager.num_available
    disk,            \* data file : Blocks -> page
    file_len,        \* data file : its length in blocks (blocks at and beyond it are not in the file)
    disk_log,        \* log file : sequence of blocks, each a sequence of records (oldest first)
    log_page,        \* LogManager.log_page : records of the tail block (oldest first)
    current_block,   \* LogManager.current_block (block number)
    latest_lsn,      \* LogManager.latest_lsn
    last_saved_lsn,  \* LogManager.last_saved_lsn
    locks,           \* LockTable.locks : LockKeys -> 0 (absent) | n > 0 (Shared(n)) | -1 (Exclusive)
    queues,          \* LockTable.queues : LockKeys -> sequence of parked threads
    park_token,      \* thread park token (set by unpark, consumed by park_timeout)
    next_txnum,      \* TransactionFactory.next_txnum
    needs_recover,   \* the process restarted and recover has not run yet
    tx_status,       \* life cycle of the transaction handle
    tx_num,          \* Transaction.txnum
    tx_before,       \* history: the value an offset held before the transaction's first set_int on it
    cm_locks,        \* ConcurrencyManager.locks : LockKeys -> "None" | "Shared" | "Exclusive"
    bl_pins,         \* BufferList.pins : Blocks -> number of occurrences
    bl_buffers,      \* BufferList.buffers : Blocks -> buffer or NoBuf
    th_pc,           \* SpecBM: position of the thread inside pin / unpin
    th_blk,          \* SpecBM: block the thread asked for
    th_idx,          \* SpecBM: loop index of find_existing_buffer / choose_unpinned_buffer
    th_buf,          \* SpecBM: buffer chosen by the current try_to_pin
    th_held,         \* SpecBM: handles returned by pin and not yet unpinned
    poisoned,        \* SpecBM: mutexes poisoned by a panic (a buffer, or 0 for num_available)
    lg_pc,           \* SpecLog: "append", then "forward" (a LogIterator is open), then "reverse"
    lg_appended,     \* SpecLog: history, the records handed to LogManager::append, in order
    lg_it,           \* SpecLog: the LogIterator
    lg_rit,          \* SpecLog: the LogReverseIterator
    lg_fwd,          \* SpecLog: history, the records LogIterator::next returned, in order
    lg_rev,          \* SpecLog: history, the records LogReverseIterator::next returned, in order
    la_pc,           \* SpecAppend: position of the thread inside LogManager::append
    la_rec,          \* SpecAppend: the record the thread appends
    la_boundary,     \* SpecAppend: the thread's local variable boundary
    la_calls,        \* SpecAppend: number of calls of append so far
    la_ret,          \* SpecAppend: history, the appends that returned: the LSN returned and the record
    lt_lock,         \* SpecLT: LockTable.locks entry of the block: 0 (absent) | n > 0 (Shared(n)) | -1 (Exclusive)
    lt_present,      \* SpecLT: LockTable.queues has an entry for the block
    lt_queue,        \* SpecLT: the queue of that entry
    lt_shard,        \* SpecLT: the thread that holds the entry guard of LockTable.locks, or 0
    lt_pc,           \* SpecLT: position of the thread inside its call
    lt_op,           \* SpecLT: the call the thread is in: "slock", "xlock", "promote", "unlock"
    lt_holds,        \* SpecLT: the lock the thread holds: "None" | "Shared" | "Exclusive"
    lt_token,        \* SpecLT: the thread's park token
    lt_stale,        \* SpecLT: the queue the thread got from get_or_create_queue was removed from the map
    lt_orphan,       \* SpecLT: the thread pushed itself on a queue that is no longer in the map
    lt_res,          \* SpecLT: how the thread's last call ended
    lt_rounds,       \* SpecLT: the times park_timeout returned to the thread within the waiting time of its call
    eof_seen,        \* SpecEof: history, the block count the transaction numbered n knows from size and its own appends
    fa_pc,           \* SpecFile: position of the thread inside FileManager::append
    fa_blknum,       \* SpecFile: the thread's local variable blknum
    fa_ret,          \* SpecFile: history, the block numbers append returned, in order
    end_held,        \* SpecEnd: history, what the handle held when its last commit / rollback was called
    bp_out,          \* SpecPins: history, pin calls that returned a buffer minus unpin calls that returned Ok
    bp_last,         \* SpecPins: history, the last call of BufferList::unpin and what it did
    cr_th,           \* SpecCreate: the thread's position, call, record, local boundary, LSN and transaction
    cr_mutex,        \* SpecCreate: the thread that holds the guard of TransactionFactory.next_txnum, or 0
    cr_made,         \* SpecCreate: history, the transaction numbers create returned, in order
    ts_file,         \* SpecScan: the table file, a sequence of pages (byte offset of a word -> int)
    ts_block,        \* SpecScan: TableScanImpl.record_page.block (block number)
    ts_slot,         \* SpecScan: TableScanImpl.current_slot (None: no slot)
    ts_scan,         \* SpecScan: history, "on" since before_first while only move_next was called, "done" once it returned false
    ts_visited,      \* SpecScan: history, the records move_next stopped on in this scan
    ts_expect,       \* SpecScan: history, the records inserted and not deleted, with the value set
    ps_s1,           \* SpecProduct: ProductScan.s1, a scan of n records with its cursor
    ps_s2,           \* SpecProduct: ProductScan.s2
    ps_state,        \* SpecProduct: history, "on" since before_first, "done" once move_next returned false
    ps_out,          \* SpecProduct: history, the cursors of s1 and s2 each time move_next returned true
    qs_t1,           \* SpecQuery: the records of table T1, the values of its field a
    qs_t2,           \* SpecQuery: the records of table T2, the values of its field b
    qs_pred,         \* SpecQuery: QueryData.predicate, the set of its terms
    qs_fields,       \* SpecQuery: QueryData.fields
    qs_s1,           \* SpecQuery: the table scan of T1 (ProductScan.s1)
    qs_s2,           \* SpecQuery: the table scan of T2 (ProductScan.s2)
    qs_state,        \* SpecQuery: history, "on" since before_first, "done" / "error" once move_next returned false / Err
    qs_out,          \* SpecQuery: history, the rows the scan yielded, as get_val returns them
    fm_page,         \* SpecFormat: the contents of the block of the record page, word by word
    fm_log,          \* SpecFormat: the log records the transaction appended, oldest first
    sm_tblcat,       \* SpecStat: the table names listed in tblcat
    sm_rows,         \* SpecStat: the number of records of each table
    num_calls,       \* SpecStat: StatManagerImpl.num_calls
    field_stats,     \* SpecStat: StatManagerImpl.field_stats, num_records per table, None when absent
    sm_served,       \* SpecStat: history, the calls of get_field_stat since StatManagerImpl::new
    sm_rebuilds,     \* SpecStat: history, the calls of refresh_statistics
    sm_last,         \* SpecStat: history, what the last call of get_field_stat did
    pg_bb,           \* SpecPage: Page.bb, the bytes of the page
    pg_ops,          \* SpecPage: history, the number of set calls made on the page
    pg_last,         \* SpecPage: history, the last set call and the bytes of the page before it
    pr_input,        \* SpecParse: the text given to the parser, a sequence of characters
    pr_q,            \* SpecParse: the QueryData parse_query returned for pr_input, if any
    pr_q2,           \* SpecParse: the QueryData parse_query returned for the text pr_q displays as
    pr_state,        \* SpecParse: history, "parsed" after parse_query, "reparsed" after the second
    cc_acq,          \* SpecCM: history, the slock / xlock calls the lock table granted per transaction and block since release
    cc_pro,          \* SpecCM: history, the promotions the lock table granted per transaction and block since release
    cc_last,         \* SpecCM: history, the last call of a ConcurrencyManager and the state it found
    pw_pc,           \* SpecWait: where each thread is in BufferManager::pin, or how its call ended
    pw_blk,          \* SpecWait: the block the thread pins
    pw_buf,          \* SpecWait: the buffer the thread holds a pin of, NoBuf when none
    pw_expired,      \* SpecWait: the max-pin-wait of the thread's call has elapsed
    pw_signal,       \* SpecWait: a notify_all reached the thread in its wait_timeout
    pw_calls,        \* SpecWait: history, the number of pin calls of the thread
    pw_retried,      \* SpecWait: history, the thread's last try_to_pin came after a wait
    pw_free,         \* SpecWait: history, a buffer was free at the thread's last try_to_pin
    pw_missed,       \* SpecWait: history, an unpin notified between the thread's failed attempt and its wait
    sl_wrap,         \* SpecSelect: the scan opened: "none" | "select" | "project" | "failed"
    sl_child,        \* SpecSelect: the scan below: its records (fields a and b), its position, ReadOnly or Updatable
    sl_pred,         \* SpecSelect: the predicate of the SelectScan
    sl_fields,       \* SpecSelect: the field list of the ProjectScan
    sl_out,          \* SpecSelect: history, the positions move_next returned true on since before_first
    sl_scanning,     \* SpecSelect: history, only move_next and get_val were called since before_first
    sl_last,         \* SpecSelect: history, the last call, its result, the calls it made of the scan below, whether that scan is as before
    dp_pool,         \* SpecDup: the block and the pin count of each buffer of a pool of NumDupBuffs buffers
    dp_avail,        \* SpecDup: num_available of that pool
    dp_pc,           \* SpecDup: position of the thread inside pin
    dp_blk,          \* SpecDup: the block the thread pins
    dp_idx,          \* SpecDup: the buffer the thread's scan of the pool is at
    dp_buf,          \* SpecDup: the buffer the thread found or chose
    dp_held,         \* SpecDup: the pins the thread holds, per buffer
    dp_poisoned      \* SpecDup: the mutexes poisoned by a panic (a buffer, or NumAvailableMutex)

mvars == <<buffer_pool, num_available, disk, file_len, disk_log, log_page, current_block,
           latest_lsn, last_saved_lsn, locks, queues, park_token,
           cm_locks, bl_pins, bl_buffers>>
txvars == <<next_txnum, needs_recover, tx_status, tx_num, tx_before>>
thvars == <<th_pc, th_blk, th_idx, th_buf, th_held, poisoned>>
lgvars == <<lg_pc, lg_appended, lg_it, lg_rit, lg_fwd, lg_rev>>
\* the variables of the specifications that follow one call step by step
lavars == <<la_pc, la_rec, la_boundary, la_calls, la_ret>>
ltvars == <<lt_lock, lt_present, lt_queue, lt_shard, lt_pc, lt_op, lt_holds,
            lt_token, lt_stale, lt_orphan, lt_res, lt_rounds>>
eofvars == <<eof_seen>>
favars == <<fa_pc, fa_blknum, fa_ret>>
\* the variables of the specifications of single calls and of the upper layers
endvars == <<end_held>>
pinvars == <<bp_out, bp_last>>
crvars == <<cr_th, cr_mutex, cr_made>>
tsvars == <<ts_file, ts_block, ts_slot, ts_scan, ts_visited, ts_expect>>
psvars == <<ps_s1, ps_s2, ps_state, ps_out>>
qsvars == <<qs_t1, qs_t2, qs_pred, qs_fields, qs_s1, qs_s2, qs_state, qs_out>>
fmvars == <<fm_page, fm_log>>
smvars == <<sm_tblcat, sm_rows, num_calls, field_stats, sm_served, sm_rebuilds, sm_last>>
pgvars == <<pg_bb, pg_ops, pg_last>>
prvars == <<pr_input, pr_q, pr_q2, pr_state>>
ccvars == <<cc_acq, cc_pro, cc_last>>
pwvars == <<pw_pc, pw_blk, pw_buf, pw_expired, pw_signal, pw_calls, pw_retried, pw_free, pw_missed>>
slvars == <<sl_wrap, sl_child, sl_pred, sl_fields, sl_out, sl_scanning, sl_last>>
dpvars == <<dp_pool, dp_avail, dp_pc, dp_blk, dp_idx, dp_buf, dp_held, dp_poisoned>>
after_sl == <<dpvars>>
after_pw == <<slvars, after_sl>>
after_cc == <<pwvars, after_pw>>
after_pr == <<ccvars, after_cc>>
after_pg == <<prvars, after_pr>>
after_sm == <<pgvars, after_pg>>
after_fm == <<smvars, after_sm>>
after_qs == <<fmvars, after_fm>>
after_ps == <<qsvars, after_qs>>
after_ts == <<psvars, after_ps>>
after_cr == <<tsvars, after_ts>>
after_pin == <<crvars, after_cr>>
after_end == <<pinvars, after_pin>>
highvars == <<endvars, after_end>>
lowvars == <<lgvars, lavars, ltvars, eofvars, favars>>
stepvars == <<lgvars, lavars, ltvars, eofvars, favars, highvars>>
vars == <<mvars, txvars, thvars, stepvars>>

\* The shared state as one value, so that a handler that calls other
\* handlers (rollback calling undo, undo calling pin and set_int) is the
\* composition of their effects.
St ==
    [pool |-> buffer_pool, avail |-> num_available, disk |-> disk, flen |-> file_len,
     dlog |-> disk_log, page |-> log_page, cur |-> current_block,
     latest |-> latest_lsn, saved |-> last_saved_lsn,
     locks |-> locks, queues |-> queues, token |-> park_token,
     cm |-> cm_locks, pins |-> bl_pins, bufs |-> bl_buffers]

Install(m) ==
    /\ buffer_pool' = m.pool
    /\ num_available' = m.avail
    /\ disk' = m.disk
    /\ file_len' = m.flen
    /\ disk_log' = m.dlog
    /\ log_page' = m.page
    /\ current_block' = m.cur
    /\ latest_lsn' = m.latest
    /\ last_saved_lsn' = m.saved
    /\ locks' = m.locks
    /\ queues' = m.queues
    /\ park_token' = m.token
    /\ cm_locks' = m.cm
    /\ bl_pins' = m.pins
    /\ bl_buffers' = m.bufs

\* ------------------------------------------------------------ log records
StartRec(n) == [op |-> "Start", tx |-> n, blk |-> 0, off |-> 0, old |-> 0, new |-> 0]
CommitRec(n) == [op |-> "Commit", tx |-> n, blk |-> 0, off |-> 0, old |-> 0, new |-> 0]
RollbackRec(n) == [op |-> "Rollback", tx |-> n, blk |-> 0, off |-> 0, old |-> 0, new |-> 0]
CheckPointRec == [op |-> "CheckPoint", tx |-> 0, blk |-> 0, off |-> 0, old |-> 0, new |-> 0]
SetIntRec(n, b, o, ov, nv) == [op |-> "SetInt", tx |-> n, blk |-> b, off |-> o, old |-> ov, new |-> nv]

\* length in bytes of the encoded record (record_len of each write_to_log)
RecLen(r) ==
    CASE r.op = "CheckPoint" -> INTEGER_BYTE_LEN
      [] r.op \in {"Start", "Commit", "Rollback"} -> INTEGER_BYTE_LEN * 2
      [] OTHER -> 6 * INTEGER_BYTE_LEN + FileNameLen + INTEGER_BYTE_LEN

RECURSIVE UsedBytes(_)
UsedBytes(recs) ==
    IF recs = <<>> THEN 0
    ELSE INTEGER_BYTE_LEN + RecLen(Head(recs)) + UsedBytes(Tail(recs))

\* the boundary word of a log block: offset of its newest record
Boundary(recs) == LogBlockSize - UsedBytes(recs)

RECURSIVE Flatten(_)
Flatten(blocks) ==
    IF blocks = <<>> THEN <<>> ELSE Head(blocks) \o Flatten(Tail(blocks))

\* ------------------------------------------------------------ LogManager
\* the block numbered n of the log file
LogBlock(dlog, n) == dlog[n + 1]

\* variant of flush_all that records the LSN as saved without writing the page
LmFlushAllNoWrite(m) == [m EXCEPT !.saved = m.latest]

LmFlushAll(m) ==
    [m EXCEPT !.dlog = [m.dlog EXCEPT ![m.cur + 1] = m.page],
              !.saved = m.latest]

LmFlush(m, lsn) ==
    IF lsn <= m.saved THEN m ELSE LmFlushAll(m)

\* append_new_block: the file grows by one block, the page's boundary word
\* is reset to the block size and the page is written to the new block
AppendNewBlock(m) ==
    [m EXCEPT !.dlog = Append(m.dlog, <<>>),
              !.page = <<>>,
              !.cur = Len(m.dlog)]

\* the end of append: the record is put in the page, latest_lsn goes up by one
PutRecord(m1, rec) ==
    [m1 EXCEPT !.page = Append(m1.page, rec),
               !.latest = m1.latest + 1]

LmAppend(m, rec) ==
    LET bytes_needed == RecLen(rec) + INTEGER_BYTE_LEN
    IN PutRecord(IF Boundary(m.page) < INTEGER_BYTE_LEN + bytes_needed
                 THEN AppendNewBlock(LmFlushAll(m))
                 ELSE m,
                 rec)

\* LogIterator: block number, snapshot of the block, and current_pos kept
\* as the number of records already read from the newest end of the block
\* (current_pos = boundary + bytes of the records read; it equals the
\* block size exactly when all records of the block were read)
IteratorAt(m1) ==
    [m |-> m1, it |-> [block |-> m1.cur, page |-> LogBlock(m1.dlog, m1.cur), pos |-> 0]]

\* variant of the iterator that starts behind the newest record of the block
IteratorAfterNewest(m) ==
    LET i == IteratorAt(LmFlushAll(m))
    IN [m |-> i.m, it |-> [i.it EXCEPT !.pos = IF Len(i.it.page) > 0 THEN 1 ELSE 0]]

\* LogManager::iterator: flush_all, then LogIterator::new on the current block
LogIteratorNew(m) == IteratorAt(LmFlushAll(m))

ItAtEnd(it) == it.pos = Len(it.page) /\ it.block = 0

ItMove(dlog, it) ==
    IF it.pos = Len(it.page)
    THEN [block |-> it.block - 1, page |-> LogBlock(dlog, it.block - 1), pos |-> 0]
    ELSE it

\* LogIterator::next when not at the end: the record and the advanced iterator
ItRec(dlog, it) ==
    LET i == ItMove(dlog, it) IN i.page[Len(i.page) - i.pos]

ItAdvance(dlog, it) ==
    LET i == ItMove(dlog, it) IN [i EXCEPT !.pos = i.pos + 1]

\* LogReverseIterator: rec_pos_list is the list of the records of the block
\* in front of the forward iterator's position; current_idx counts down.
\* idx = 0 stands for current_idx = None.
\* variant of construct_rec_pos_list that lists every record of the block,
\* whatever the position of the forward iterator
ConstructWholeBlock(dlog, pos, block) ==
    LET recs == LogBlock(dlog, block)
    IN [k \in 1..Len(recs) |-> recs[Len(recs) - k + 1]]

ConstructRecPosList(dlog, pos, block) ==
    LET recs == LogBlock(dlog, block)
    IN [k \in 1..(IF pos <= Len(recs) THEN pos ELSE Len(recs)) |-> recs[Len(recs) - k + 1]]

RevIteratorNew(dlog, it) ==
    LET l == ConstructRecPosList(dlog, it.pos, it.block)
    IN [block |-> it.block, list |-> l, idx |-> Len(l)]

RevAtEnd(rit) == rit.idx = 0

RevRec(rit) == rit.list[rit.idx]

RevAdvance(dlog, rit) ==
    IF rit.idx = 1
    THEN IF rit.block = Len(dlog) - 1
         THEN [rit EXCEPT !.idx = 0]
         ELSE LET l == ConstructRecPosList(dlog, Len(LogBlock(dlog, rit.block + 1)), rit.block + 1)
              IN [block |-> rit.block + 1, list |-> l, idx |-> Len(l)]
    ELSE [rit EXCEPT !.idx = rit.idx - 1]

\* ------------------------------------------------------------------ Buffer
NewBuffer == [block |-> None, contents |-> [o \in Offsets |-> 0], pins |-> 0,
              txnum |-> None, lsn |-> None]

\* Buffer::is_pinned.  pins is a usize: the value -1 stands for usize::MAX,
\* which a decrement of 0 yields in a build without overflow checks.
IsPinned(buf) == buf.pins # 0

\* Buffer::set_modified
SetModified(buf, txnum, lsn) == [buf EXCEPT !.txnum = txnum, !.lsn = lsn]

\* variant of flush that writes the page without flushing the log first
BufFlushPageOnly(m, i) ==
    LET b == m.pool[i]
    IN IF b.block # None /\ b.txnum # None
       THEN [m EXCEPT !.disk = [m.disk EXCEPT ![b.block] = b.contents],
                      !.flen = IF b.block < m.flen THEN m.flen ELSE b.block + 1,
                      !.pool = [m.pool EXCEPT ![i].txnum = None]]
       ELSE m

\* Buffer::flush of buffer i: flush the log up to lsn (0 when None), then
\* write the page, only when both block and txnum are set
\* the end of flush: the page of buffer b (the i-th) is written, txnum cleared
\* (FileManager::write at or beyond the end of the file makes the file longer)
WritePage(m1, i, b) ==
    [m1 EXCEPT !.disk = [m1.disk EXCEPT ![b.block] = b.contents],
               !.flen = IF b.block < m1.flen THEN m1.flen ELSE b.block + 1,
               !.pool = [m1.pool EXCEPT ![i].txnum = None]]

BufFlush(m, i) ==
    LET b == m.pool[i]
    IN IF b.block # None /\ b.txnum # None
       THEN WritePage(LmFlush(m, IF b.lsn = None THEN 0 ELSE b.lsn), i, b)
       ELSE m

\* Buffer::assign_to_block
\* the end of assign_to_block: the block is read in, pins is set to 0
\* (FileManager::read at or beyond the end of the file reads no byte and
\* leaves the page as it is)
ReadBlock(m1, i, blk) ==
    [m1 EXCEPT !.pool = [m1.pool EXCEPT ![i].block = blk,
                                        ![i].contents = IF blk < m1.flen THEN m1.disk[blk]
                                                        ELSE m1.pool[i].contents,
                                        ![i].pins = 0]]

\* variant of assign_to_block that reads the new block in without flushing
\* the page the buffer holds
AssignWithoutFlush(m, i, blk) == ReadBlock(m, i, blk)

AssignToBlock(m, i, blk) == ReadBlock(BufFlush(m, i), i, blk)

\* ------------------------------------------------------------ BufferManager
Min(S) == CHOOSE x \in S : \A y \in S : x <= y

FindExistingBuffer(pool, blk) ==
    LET S == {i \in Buffers : pool[i].block = blk}
    IN IF S = {} THEN NoBuf ELSE Min(S)

\* variant of choose_unpinned_buffer that takes the first buffer, pinned or not
ChooseFirstBuffer(pool) == 1

ChooseUnpinnedBuffer(pool) ==
    LET S == {i \in Buffers : ~IsPinned(pool[i])}
    IN IF S = {} THEN NoBuf ELSE Min(S)

\* the second half of try_to_pin: bookkeeping of num_available, then pin
PinBuffer(m, i) ==
    [m EXCEPT !.avail = IF IsPinned(m.pool[i]) THEN m.avail ELSE m.avail - 1,
              !.pool = [m.pool EXCEPT ![i].pins = m.pool[i].pins + 1]]

\* try_to_pin run without interference; buf = NoBuf stands for Ok(None)
TryToPin(m, blk) ==
    LET e == FindExistingBuffer(m.pool, blk)
        c == ChooseUnpinnedBuffer(m.pool)
    IN IF e # NoBuf THEN [m |-> PinBuffer(m, e), buf |-> e]
       ELSE IF c # NoBuf THEN [m |-> PinBuffer(AssignToBlock(m, c, blk), c), buf |-> c]
       ELSE [m |-> m, buf |-> NoBuf]

\* BufferManager::pin as seen by a transaction call during which no other
\* thread runs: a failed try is repeated after the wait with the same
\* outcome, and the call ends with BufferManagerError::Pin
PinResult(r) ==
    [m |-> r.m, buf |-> r.buf, err |-> IF r.buf = NoBuf THEN "Pin" ELSE "Ok"]

BmPin(m, blk) == PinResult(TryToPin(m, blk))

\* BufferManager::unpin
BmUnpin(m, i) ==
    LET m1 == [m EXCEPT !.pool = [m.pool EXCEPT ![i].pins = m.pool[i].pins - 1]]
    IN [m1 EXCEPT !.avail = IF IsPinned(m1.pool[i]) THEN m.avail ELSE m.avail + 1]

RECURSIVE BmFlushAllFrom(_, _)
BmFlushAllFrom(m, i) ==
    IF i > NumBuffs THEN m
    ELSE BmFlushAllFrom(IF m.pool[i].block # None THEN BufFlush(m, i) ELSE m, i + 1)

\* BufferManager::flush_all
BmFlushAll(m) == BmFlushAllFrom(m, 1)

\* --------------------------------------------------------------- BufferList
\* BufferList::pin
\* the end of BufferList::pin, r the result of buffer_manager.pin
RecordPin(r, t, blk) ==
    IF r.err # "Ok" THEN [m |-> r.m, err |-> r.err]
    ELSE [m |-> [r.m EXCEPT
                   !.bufs = [r.m.bufs EXCEPT ![t][blk] =
                                IF r.m.bufs[t][blk] = NoBuf THEN r.buf ELSE r.m.bufs[t][blk]],
                   !.pins = [r.m.pins EXCEPT ![t][blk] = r.m.pins[t][blk] + 1]],
          err |-> "Ok"]

BlPin(m, t, blk) == RecordPin(BmPin(m, blk), t, blk)

\* variant of unpin that leaves the block in the list
BlUnpinKeepsPin(m, t, blk) ==
    IF m.bufs[t][blk] = NoBuf THEN [m |-> m, err |-> "InvalidCall"]
    ELSE [m |-> BmUnpin(m, m.bufs[t][blk]), err |-> "Ok"]

\* BufferList::unpin
BlUnpin(m, t, blk) ==
    IF m.bufs[t][blk] = NoBuf THEN [m |-> m, err |-> "InvalidCall"]
    ELSE LET m1 == BmUnpin(m, m.bufs[t][blk])
         IN IF m1.pins[t][blk] = 0 THEN [m |-> m1, err |-> "InvalidCall"]
            ELSE [m |-> [m1 EXCEPT
                           !.pins = [m1.pins EXCEPT ![t][blk] = m1.pins[t][blk] - 1],
                           !.bufs = [m1.bufs EXCEPT ![t][blk] =
                                        IF m1.pins[t][blk] = 1 THEN NoBuf ELSE m1.bufs[t][blk]]],
                  err |-> "Ok"]

RECURSIVE UnpinTimes(_, _, _)
UnpinTimes(m, i, n) == IF n = 0 THEN m ELSE UnpinTimes(BmUnpin(m, i), i, n - 1)

RECURSIVE BlUnpinAllFrom(_, _, _)
BlUnpinAllFrom(m, t, b) ==
    IF b > MaxBlock THEN m
    ELSE BlUnpinAllFrom(IF m.pins[t][b] > 0 THEN UnpinTimes(m, m.bufs[t][b], m.pins[t][b]) ELSE m,
                        t, b + 1)

\* BufferList::unpin_all (every pinned block has its entry in buffers)
ClearPins(m1, t) ==
    [m1 EXCEPT !.pins = [m1.pins EXCEPT ![t] = [b \in Blocks |-> 0]],
               !.bufs = [m1.bufs EXCEPT ![t] = [b \in Blocks |-> NoBuf]]]

\* variant of unpin_all that clears the list without unpinning the buffers
BlUnpinAllListOnly(m, t) == ClearPins(m, t)

BlUnpinAll(m, t) == ClearPins(BlUnpinAllFrom(m, t, 0), t)

\* ---------------------------------------------------------------- LockTable
NoLock == 0
Exclusive == -1

\* The wait of a lock call during which no other thread runs: the caller
\* enqueues itself and parks; a token left by an earlier unpark ends the
\* first park at once, the loop enqueues the caller again, and the second
\* park lasts until the budget is spent.  The call returns Timeout.
WaitTimeout(m, t, blk) ==
    LET q == IF m.token[t] THEN <<t, t>> ELSE <<t>>
    IN [m EXCEPT !.queues = [m.queues EXCEPT ![blk] = m.queues[blk] \o q],
                 !.token = [m.token EXCEPT ![t] = FALSE]]

\* variant of slock that is granted even while the block is held exclusively
LtSlockOverExclusive(m, t, blk) ==
    [m |-> [m EXCEPT !.locks = [m.locks EXCEPT ![blk] =
                                   IF m.locks[blk] = Exclusive THEN 1 ELSE m.locks[blk] + 1]],
     err |-> "Ok"]

LtSlock(m, t, blk) ==
    IF m.locks[blk] # Exclusive
    THEN [m |-> [m EXCEPT !.locks = [m.locks EXCEPT ![blk] = m.locks[blk] + 1]], err |-> "Ok"]
    ELSE [m |-> WaitTimeout(m, t, blk), err |-> "Timeout"]

\* variant of xlock that is granted unless the block is held exclusively
\* (it overlooks shared holders)
LtXlockOverShared(m, t, blk) ==
    IF m.locks[blk] # Exclusive
    THEN [m |-> [m EXCEPT !.locks = [m.locks EXCEPT ![blk] = Exclusive]], err |-> "Ok"]
    ELSE [m |-> WaitTimeout(m, t, blk), err |-> "Timeout"]

LtXlock(m, t, blk) ==
    IF m.locks[blk] = NoLock
    THEN [m |-> [m EXCEPT !.locks = [m.locks EXCEPT ![blk] = Exclusive]], err |-> "Ok"]
    ELSE [m |-> WaitTimeout(m, t, blk), err |-> "Timeout"]

LtPromoteToXlock(m, t, blk) ==
    IF m.locks[blk] = 1
    THEN [m |-> [m EXCEPT !.locks = [m.locks EXCEPT ![blk] = Exclusive]], err |-> "Ok"]
    ELSE IF m.locks[blk] = NoLock THEN [m |-> m, err |-> "General"]
    ELSE [m |-> WaitTimeout(m, t, blk), err |-> "Timeout"]

LtUnlock(m, blk) ==
    IF m.locks[blk] = NoLock THEN [m |-> m, err |-> "General"]
    ELSE IF m.locks[blk] > 1
    THEN [m |-> [m EXCEPT !.locks = [m.locks EXCEPT ![blk] = m.locks[blk] - 1]], err |-> "Ok"]
    ELSE [m |-> [m EXCEPT !.locks = [m.locks EXCEPT ![blk] = NoLock],
                          !.token = [th \in Txs |->
                                       m.token[th] \/ (\E k \in 1..Len(m.queues[blk]) : m.queues[blk][k] = th)],
                          !.queues = [m.queues EXCEPT ![blk] = <<>>]],
          err |-> "Ok"]

\* ------------------------------------------------------- ConcurrencyManager
\* the end of slock / xlock, r the result of the lock table: the kind of
\* lock is recorded in the transaction's own map
RecordLock(r, t, blk, kind) ==
    IF r.err # "Ok" THEN r
    ELSE [m |-> [r.m EXCEPT !.cm = [r.m.cm EXCEPT ![t][blk] = kind]], err |-> "Ok"]

\* variant of slock that asks the lock table whatever the transaction holds
CmSlockAlways(m, t, blk) == RecordLock(LtSlock(m, t, blk), t, blk, "Shared")

CmSlock(m, t, blk) ==
    IF m.cm[t][blk] # "None" THEN [m |-> m, err |-> "Ok"]
    ELSE RecordLock(LtSlock(m, t, blk), t, blk, "Shared")

CmXlock(m, t, blk) ==
    IF m.cm[t][blk] = "Exclusive" THEN [m |-> m, err |-> "Ok"]
    ELSE RecordLock(IF m.cm[t][blk] = "Shared" THEN LtPromoteToXlock(m, t, blk)
                    ELSE LtXlock(m, t, blk),
                    t, blk, "Exclusive")

RECURSIVE CmReleaseFrom(_, _, _)
RECURSIVE CmReleaseNext(_, _, _)
CmReleaseNext(r, t, b) ==
    IF r.err # "Ok" THEN r ELSE CmReleaseFrom(r.m, t, b + 1)

CmReleaseFrom(m, t, b) ==
    IF b > EndOfFile THEN [m |-> m, err |-> "Ok"]
    ELSE IF m.cm[t][b] = "None" THEN CmReleaseFrom(m, t, b + 1)
    ELSE CmReleaseNext(LtUnlock(m, b), t, b)

\* the end of release: the transaction's own map is cleared
ClearLocks(r, t) ==
    IF r.err # "Ok" THEN r
    ELSE [m |-> [r.m EXCEPT !.cm = [r.m.cm EXCEPT ![t] = [b \in LockKeys |-> "None"]]],
          err |-> "Ok"]

\* ConcurrencyManager::release
CmRelease(m, t) == ClearLocks(CmReleaseFrom(m, t, 0), t)

\* -------------------------------------------------------------- Transaction
\* Transaction::get_int
\* the end of get_int, r the result of slock
ReadInt(r, t, blk, off) ==
    IF r.err # "Ok" THEN [m |-> r.m, err |-> r.err, val |-> 0]
    ELSE IF r.m.bufs[t][blk] = NoBuf THEN [m |-> r.m, err |-> "InvalidCall", val |-> 0]
    ELSE [m |-> r.m, err |-> "Ok", val |-> r.m.pool[r.m.bufs[t][blk]].contents[off]]

TxGetInt(m, t, blk, off) == ReadInt(CmSlock(m, t, blk), t, blk, off)

\* LogRecordWriter::log_set_int: the old value is read from the buffer
LogSetInt(m, n, i, off, val) ==
    LmAppend(m, SetIntRec(n, m.pool[i].block, off, m.pool[i].contents[off], val))

\* Transaction::set_int for the transaction numbered n held by handle t
\* the end of set_int: the value is put in the page of buffer i and the
\* buffer is marked modified with the lsn of the record (None when not logged)
WriteInt(m1, n, i, off, val, is_ok_to_log) ==
    LET lsn == IF is_ok_to_log THEN m1.latest ELSE None
        b1 == [m1.pool[i] EXCEPT !.contents = [m1.pool[i].contents EXCEPT ![off] = val]]
    IN [m |-> [m1 EXCEPT !.pool = [m1.pool EXCEPT ![i] = SetModified(b1, n, lsn)]],
        err |-> "Ok"]

\* set_int after xlock, r the result of xlock
LogAndWriteInt(r, t, n, blk, off, val, is_ok_to_log) ==
    IF r.err # "Ok" THEN r
    ELSE IF r.m.bufs[t][blk] = NoBuf THEN [m |-> r.m, err |-> "InvalidCall"]
    ELSE WriteInt(IF is_ok_to_log THEN LogSetInt(r.m, n, r.m.bufs[t][blk], off, val) ELSE r.m,
                  n, r.m.bufs[t][blk], off, val, is_ok_to_log)

TxSetInt(m, t, n, blk, off, val, is_ok_to_log) ==
    LogAndWriteInt(CmXlock(m, t, blk), t, n, blk, off, val, is_ok_to_log)

\* SetIntRecord::undo / redo: pin the block, write the value without logging
ReplayPinned(r, t, n, rec, val) ==
    IF r.err # "Ok" THEN r
    ELSE TxSetInt(r.m, t, n, rec.blk, rec.off, val, FALSE)

Replay(m, t, n, rec, val) == ReplayPinned(BlPin(m, t, rec.blk), t, n, rec, val)

\* variant of undo that writes the new value of the record
UndoWritesNew(m, t, n, rec) == Replay(m, t, n, rec, rec.new)

\* variant of redo that leaves the page as it is
RedoSkipped(m, t, n, rec) == [m |-> m, err |-> "Ok"]

Undo(m, t, n, rec) == Replay(m, t, n, rec, rec.old)
Redo(m, t, n, rec) == Replay(m, t, n, rec, rec.new)

\* flush of the log up to the lsn that append has just returned
FlushLatest(m1) == LmFlush(m1, m1.latest)

\* variant of log_commit that appends the record and leaves the flush to later
LogCommitUnflushed(m, n) == LmAppend(m, CommitRec(n))

\* LogRecordWriter::log_commit / log_rollback / log_check_point / log_start
LogCommit(m, n) == FlushLatest(LmAppend(m, CommitRec(n)))
LogRollback(m, n) == FlushLatest(LmAppend(m, RollbackRec(n)))
LogCheckPoint(m) == FlushLatest(LmAppend(m, CheckPointRec))
LogStart(m, n) == LmAppend(m, StartRec(n))

\* Transaction::commit
\* the end of commit and rollback, r the result of release: unpin_all
UnpinReleased(r, t) ==
    IF r.err # "Ok" THEN r
    ELSE [m |-> BlUnpinAll(r.m, t), err |-> "Ok"]

TxCommit(m, t, n) == UnpinReleased(CmRelease(LogCommit(m, n), t), t)

\* the loop of Transaction::do_rollback
RECURSIVE RollbackLoop(_, _, _, _)
RECURSIVE RollbackRecord(_, _, _, _, _)
RECURSIVE RollbackNext(_, _, _, _)
\* after an undo with result r, the loop goes on with the next record
RollbackNext(r, t, n, it2) ==
    IF r.err # "Ok" THEN r ELSE RollbackLoop(r.m, t, n, it2)

\* the body of the loop for the record rec, it2 the iterator after it
RollbackRecord(m, t, n, rec, it2) ==
    IF rec.op = "Start" /\ rec.tx = n THEN [m |-> m, err |-> "Ok"]
    ELSE IF rec.op = "SetInt" /\ rec.tx = n THEN RollbackNext(Undo(m, t, n, rec), t, n, it2)
    ELSE RollbackLoop(m, t, n, it2)

RollbackLoop(m, t, n, it) ==
    IF ItAtEnd(it) THEN [m |-> m, err |-> "Ok"]
    ELSE RollbackRecord(m, t, n, ItRec(m.dlog, it), ItAdvance(m.dlog, it))

RollbackFrom(i, t, n) == RollbackLoop(i.m, t, n, i.it)

DoRollback(m, t, n) == RollbackFrom(LogIteratorNew(m), t, n)

\* variant of rollback that releases and unpins without undoing
TxRollbackNoUndo(m, t, n) == UnpinReleased(CmRelease(LogRollback(m, n), t), t)

\* the end of rollback and recover stages, r1 the result of the stage before: release
ReleaseAfter(r1, t) ==
    IF r1.err # "Ok" THEN r1 ELSE CmRelease(r1.m, t)

\* Transaction::rollback
TxRollback(m, t, n) ==
    UnpinReleased(ReleaseAfter(DoRollback(LogRollback(m, n), t, n), t), t)

\* undo stage of Transaction::do_recover
RECURSIVE UndoStage(_, _, _, _, _)
RECURSIVE UndoRecord(_, _, _, _, _, _)
RECURSIVE UndoNext(_, _, _, _, _)
\* after an undo with result r, the stage goes on with the next record
UndoNext(r, t, n, it2, committed_txs) ==
    IF r.err # "Ok"
    THEN [m |-> r.m, err |-> r.err, it |-> it2, committed_txs |-> committed_txs]
    ELSE UndoStage(r.m, t, n, it2, committed_txs)

\* variant of the loop body that does not stop at a CheckPoint record
UndoRecordPastCheckPoint(m, t, n, rec, it2, committed_txs) ==
    IF rec.op = "SetInt" /\ rec.tx \notin committed_txs
    THEN UndoNext(Undo(m, t, n, rec), t, n, it2, committed_txs)
    ELSE IF rec.op = "Commit"
    THEN UndoStage(m, t, n, it2, committed_txs \cup {rec.tx})
    ELSE UndoStage(m, t, n, it2, committed_txs)

\* the body of the loop for the record rec, it2 the iterator after it
UndoRecord(m, t, n, rec, it2, committed_txs) ==
    IF rec.op = "CheckPoint"
    THEN [m |-> m, err |-> "Ok", it |-> it2, committed_txs |-> committed_txs]
    ELSE IF rec.op = "SetInt" /\ rec.tx \notin committed_txs
    THEN UndoNext(Undo(m, t, n, rec), t, n, it2, committed_txs)
    ELSE IF rec.op = "Commit"
    THEN UndoStage(m, t, n, it2, committed_txs \cup {rec.tx})
    ELSE UndoStage(m, t, n, it2, committed_txs)

UndoStage(m, t, n, it, committed_txs) ==
    IF ItAtEnd(it) THEN [m |-> m, err |-> "Ok", it |-> it, committed_txs |-> committed_txs]
    ELSE UndoRecord(m, t, n, ItRec(m.dlog, it), ItAdvance(m.dlog, it), committed_txs)

\* redo stage of Transaction::do_recover
RECURSIVE RedoStage(_, _, _, _, _)
RECURSIVE RedoRecord(_, _, _, _, _, _)
RECURSIVE RedoNext(_, _, _, _, _)
\* after a redo with result r, the stage goes on with the next record
RedoNext(r, t, n, rit2, committed_txs) ==
    IF r.err # "Ok" THEN r ELSE RedoStage(r.m, t, n, rit2, committed_txs)

\* the body of the loop for the record rec, rit2 the iterator after it
RedoRecord(m, t, n, rec, rit2, committed_txs) ==
    IF rec.op = "SetInt" /\ rec.tx \in committed_txs
    THEN RedoNext(Redo(m, t, n, rec), t, n, rit2, committed_txs)
    ELSE RedoStage(m, t, n, rit2, committed_txs)

RedoStage(m, t, n, rit, committed_txs) ==
    IF RevAtEnd(rit) THEN [m |-> m, err |-> "Ok"]
    ELSE RedoRecord(m, t, n, RevRec(rit), RevAdvance(m.dlog, rit), committed_txs)

\* the redo stage starts where the undo stage (result u) has stopped
RedoFrom(u, t, n) ==
    IF u.err # "Ok" THEN [m |-> u.m, err |-> u.err]
    ELSE RedoStage(u.m, t, n, RevIteratorNew(u.m.dlog, u.it), u.committed_txs)

UndoFrom(i, t, n) == UndoStage(i.m, t, n, i.it, {})

DoRecover(m, t, n) == RedoFrom(UndoFrom(LogIteratorNew(m), t, n), t, n)

\* the end of recover, r2 the result of release: flush_all of the buffers,
\* CheckPoint record, flush of the log
CheckPointReleased(r2) ==
    IF r2.err # "Ok" THEN r2
    ELSE [m |-> FlushLatest(LogCheckPoint(BmFlushAll(r2.m))), err |-> "Ok"]

\* Transaction::recover
TxRecover(m, t, n) == CheckPointReleased(ReleaseAfter(DoRecover(m, t, n), t))

\* FileManager::append run without interference: a zeroed block is written
\* at the end of the file
FmAppend(m) ==
    [m EXCEPT !.disk = [m.disk EXCEPT ![m.flen] = [o \in Offsets |-> 0]],
              !.flen = m.flen + 1]

\* the end of size, r the result of slock on the end-of-file block
SizeResult(r) == [m |-> r.m, err |-> r.err, val |-> r.m.flen]

\* Transaction::size
TxSize(m, t) == SizeResult(CmSlock(m, t, EndOfFile))

\* the end of append, r the result of xlock on the end-of-file block
AppendLocked(r) ==
    IF r.err # "Ok" THEN [m |-> r.m, err |-> r.err, val |-> 0]
    ELSE [m |-> FmAppend(r.m), err |-> "Ok", val |-> r.m.flen]

\* Transaction::append
TxAppend(m, t) == AppendLocked(CmXlock(m, t, EndOfFile))

\* ------------------------------------------------ Spec: transaction calls
\* number of records in the log (log file blocks before the tail, and the tail page)
\* --------------------------------------------------- Layout, RecordPage
\* RecordPageFlag
Empty == 0
Used == 1

\* Layout::new for a schema with the one integer field A: the flag word,
\* then the field
FieldOffset == INTEGER_BYTE_LEN
SlotSize == FieldOffset + INTEGER_BYTE_LEN

\* the byte offsets of the words of a table block
Words == {o \in 0..(TableBlockSize - INTEGER_BYTE_LEN) : o % INTEGER_BYTE_LEN = 0}

\* the block FileManager::append writes
ZeroPage == [o \in Words |-> 0]

RootOffset(slot) == slot * SlotSize
FieldPos(slot) == slot * SlotSize + FieldOffset
IsValidSlot(slot) == RootOffset(slot + 1) < TableBlockSize

RECURSIVE FormatFrom(_, _)
FormatFrom(page, slot) ==
    IF ~IsValidSlot(slot) THEN page
    ELSE FormatFrom([page EXCEPT ![RootOffset(slot)] = Empty, ![FieldPos(slot)] = 0], slot + 1)

\* RecordPage::format
Format(page) == FormatFrom(page, 0)

\* LogRecordWriter::log_set_int: the record holds the old and the new value
SetIntRecord(page, offset, val) == [offset |-> offset, old_val |-> page[offset], new_val |-> val]

\* Transaction::set_int as RecordPage uses it: the log records it appends
TxSetIntLog(page, offset, val, is_ok_to_log) ==
    IF is_ok_to_log THEN <<SetIntRecord(page, offset, val)>> ELSE <<>>

RECURSIVE FormatLogFrom(_, _)
FormatLogFrom(page, slot) ==
    IF ~IsValidSlot(slot) THEN <<>>
    ELSE TxSetIntLog(page, RootOffset(slot), Empty, TRUE)
         \o TxSetIntLog([page EXCEPT ![RootOffset(slot)] = Empty], FieldPos(slot), 0, FALSE)
         \o FormatLogFrom([page EXCEPT ![RootOffset(slot)] = Empty, ![FieldPos(slot)] = 0], slot + 1)

\* RecordPage::format: the log records its calls of set_int append
FormatLog(page) == FormatLogFrom(page, 0)

RECURSIVE SearchFrom(_, _, _)
SearchFrom(page, next_slot, target_flag) ==
    IF ~IsValidSlot(next_slot) THEN None
    ELSE IF page[RootOffset(next_slot)] = target_flag THEN next_slot
    ELSE SearchFrom(page, next_slot + 1, target_flag)

\* variant of search_after that includes the slot it is given
SearchFromSlot(page, slot, target_flag) ==
    SearchFrom(page, IF slot = None THEN 0 ELSE slot, target_flag)

\* RecordPage::search_after
SearchAfter(page, slot, target_flag) ==
    SearchFrom(page, IF slot = None THEN 0 ELSE slot + 1, target_flag)

\* RecordPage::next_after
NextAfter(page, slot) == SearchAfter(page, slot, Used)

\* variant of insert_after that returns the slot found without flagging it
FlagNotSet(page, slot) == [page |-> page, slot |-> slot]

\* the end of insert_after: set_flag(slot, Used) on the slot found
FlagFound(page, slot) ==
    [page |-> IF slot = None THEN page ELSE [page EXCEPT ![RootOffset(slot)] = Used],
     slot |-> slot]


\* RecordPage::insert_after
InsertAfter(page, slot) == FlagFound(page, SearchAfter(page, slot, Empty))

\* ----------------------------------------------------------------- TableScan
\* the record identifiers of a table of MaxTableBlocks blocks
Rids == {r \in (0..(MaxTableBlocks - 1)) \X (0..TableBlockSize) : IsValidSlot(r[2])}

\* ts_expect of a slot that holds no record
NoRecord == [live |-> FALSE, set |-> FALSE, val |-> 0]

\* is_at_last_block
IsAtLastBlock(file, block) == block = Len(file) - 1

RECURSIVE MoveNextLoop(_, _, _)
\* the loop of move_next
MoveNextLoop(file, block, slot) ==
    IF slot # None THEN [block |-> block, slot |-> slot, found |-> TRUE]
    ELSE IF IsAtLastBlock(file, block) THEN [block |-> block, slot |-> None, found |-> FALSE]
    ELSE MoveNextLoop(file, block + 1, NextAfter(file[block + 2], None))

\* TableScanImpl::move_next
MoveNext(file, block, slot) == MoveNextLoop(file, block, NextAfter(file[block + 1], slot))

RECURSIVE InsertLoop(_, _, _)
\* the end of one round of insert, r the result of insert_after on the block
InsertFlagged(file, block, r) ==
    InsertLoop([file EXCEPT ![block + 1] = r.page], block, r.slot)

\* the loop of insert; move_to_new_block appends a block and formats it
InsertLoop(file, block, slot) ==
    IF slot # None THEN [file |-> file, block |-> block, slot |-> slot]
    ELSE IF IsAtLastBlock(file, block)
    THEN InsertFlagged(Append(file, Format(ZeroPage)), block + 1,
                       InsertAfter(Format(ZeroPage), None))
    ELSE InsertFlagged(file, block + 1, InsertAfter(file[block + 2], None))

\* TableScanImpl::insert
Insert(file, block, slot) == InsertFlagged(file, block, InsertAfter(file[block + 1], slot))

\* --------------------------------------------------------------- ReadScan
\* A scan over n records: pos = 0 before the first record, 1..n on a
\* record, n + 1 once move_next has returned false.
ScanBeforeFirst(sc) == [sc EXCEPT !.pos = 0]

\* ReadScan::move_next: the scan after the call and the value returned
ScanMoveNext(sc) ==
    IF sc.pos < sc.n THEN [sc |-> [sc EXCEPT !.pos = sc.pos + 1], found |-> TRUE]
    ELSE [sc |-> [sc EXCEPT !.pos = sc.n + 1], found |-> FALSE]

\* ------------------------------------------------------------ ProductScan
\* ProductScan::before_first
ProductBeforeFirst(s1, s2) ==
    [s1 |-> ScanMoveNext(ScanBeforeFirst(s1)).sc, s2 |-> ScanBeforeFirst(s2)]

\* the else branch of move_next: s2.before_first(), then
\* s2.move_next()? && s1.move_next()?  (s1 moves only if s2 has a record)
ProductWrap(s1, s2b) ==
    IF ScanMoveNext(s2b).found
    THEN [s1 |-> ScanMoveNext(s1).sc, s2 |-> ScanMoveNext(s2b).sc, found |-> ScanMoveNext(s1).found]
    ELSE [s1 |-> s1, s2 |-> ScanMoveNext(s2b).sc, found |-> FALSE]

\* ProductScan::move_next
ProductMoveNext(s1, s2) ==
    IF ScanMoveNext(s2).found
    THEN [s1 |-> s1, s2 |-> ScanMoveNext(s2).sc, found |-> TRUE]
    ELSE ProductWrap(s1, ScanBeforeFirst(ScanMoveNext(s2).sc))

\* ------------------------------------- TableScan, SelectScan, ProjectScan
\* TableScanImpl::get_val on the scan sc of the records recs: InvalidCall
\* (None here) when the scan is on no record
TableGetVal(recs, sc) == IF sc.pos \in 1..Len(recs) THEN recs[sc.pos] ELSE None

\* ProductScan::get_val over T1 (field a) and T2 (field b)
ProductGetVal(t1, t2, s1, s2, field_name) ==
    IF field_name = "a" THEN TableGetVal(t1, s1) ELSE TableGetVal(t2, s2)

\* EqualTerm::is_satisfied: "ok" when both sides evaluate to the same
\* constant, "no" when they differ, "err" when an evaluation fails
TermIsSatisfied(term, t1, t2, s1, s2) ==
    LET lhs == ProductGetVal(t1, t2, s1, s2, term.lhs)
        rhs == IF term.kind = "field" THEN ProductGetVal(t1, t2, s1, s2, term.rhs)
               ELSE term.val
    IN IF lhs = None \/ rhs = None THEN "err" ELSE IF lhs = rhs THEN "ok" ELSE "no"

\* ProductPredicate::is_satisfied
IsSatisfied(pred, t1, t2, s1, s2) ==
    IF \E term \in pred : TermIsSatisfied(term, t1, t2, s1, s2) = "err" THEN "err"
    ELSE IF \A term \in pred : TermIsSatisfied(term, t1, t2, s1, s2) = "ok" THEN "ok"
    ELSE "no"

RECURSIVE SelectMoveNext(_, _, _, _, _)
RECURSIVE SelectTest(_, _, _, _)
\* the body of the loop of SelectScan::move_next, r the result of the
\* move_next of the scan below
SelectTest(r, pred, t1, t2) ==
    IF ~r.found THEN [s1 |-> r.s1, s2 |-> r.s2, res |-> "false"]
    ELSE IF IsSatisfied(pred, t1, t2, r.s1, r.s2) = "err"
    THEN [s1 |-> r.s1, s2 |-> r.s2, res |-> "err"]
    ELSE IF IsSatisfied(pred, t1, t2, r.s1, r.s2) = "ok"
    THEN [s1 |-> r.s1, s2 |-> r.s2, res |-> "true"]
    ELSE SelectMoveNext(r.s1, r.s2, pred, t1, t2)

\* SelectScan::move_next over the ProductScan
SelectMoveNext(s1, s2, pred, t1, t2) == SelectTest(ProductMoveNext(s1, s2), pred, t1, t2)

\* ProjectScan::get_val for each field of the field list
ProjectRow(fields, t1, t2, s1, s2) ==
    [f \in fields |-> ProductGetVal(t1, t2, s1, s2, f)]

\* ------------------------- SelectScan and ProjectScan over one scan below
\* the fields of the scan below
ChildFields == {"a", "b"}

\* the calls of UpdateScan
UpdateOps == {"insert", "delete", "set_val", "move_to_rid", "get_rid"}

\* the i-th element of the sequence removed
RemoveAt(q, i) == SubSeq(q, 1, i - 1) \o SubSeq(q, i + 1, Len(q))

\* get_val of the scan below: InvalidCall (None here) for a field it does not
\* have, or when it is on no record
ChildGetVal(c, f) == IF f \in ChildFields THEN TableGetVal(c[f], c) ELSE None

\* a call of the scan below: the scan after it, the result, the value returned
ChildCall(op, c, f, v) ==
    CASE op = "before_first" -> [c |-> ScanBeforeFirst(c), res |-> "Ok", val |-> None]
      [] op = "move_next" ->
            [c |-> ScanMoveNext(c).sc,
             res |-> IF ScanMoveNext(c).found THEN "true" ELSE "false", val |-> None]
      [] op = "get_val" ->
            [c |-> c, res |-> IF ChildGetVal(c, f) = None THEN "InvalidCall" ELSE "Ok",
             val |-> ChildGetVal(c, f)]
      [] op = "set_val" ->
            IF ChildGetVal(c, f) = None THEN [c |-> c, res |-> "InvalidCall", val |-> None]
            ELSE [c |-> [c EXCEPT ![f][c.pos] = v], res |-> "Ok", val |-> None]
      [] op = "insert" ->      \* the fields of the new record are 0
            [c |-> [c EXCEPT !.a = Append(c.a, 0), !.b = Append(c.b, 0),
                             !.n = c.n + 1, !.pos = c.n + 1],
             res |-> "Ok", val |-> None]
      [] op = "delete" ->
            IF c.pos \notin 1..c.n THEN [c |-> c, res |-> "InvalidCall", val |-> None]
            ELSE [c |-> [c EXCEPT !.a = RemoveAt(c.a, c.pos), !.b = RemoveAt(c.b, c.pos),
                                  !.n = c.n - 1, !.pos = c.pos - 1],
                  res |-> "Ok", val |-> None]
      [] op = "move_to_rid" -> [c |-> [c EXCEPT !.pos = v], res |-> "Ok", val |-> None]
      [] OTHER -> [c |-> c, res |-> "Ok", val |-> c.pos]

\* the call is handed to the scan below
Delegate(op, c, f, v) ==
    [c |-> ChildCall(op, c, f, v).c, res |-> ChildCall(op, c, f, v).res,
     val |-> ChildCall(op, c, f, v).val, called |-> 1]

\* Err(InvalidCall) with no call of the scan below
InvalidCall(c) == [c |-> c, res |-> "InvalidCall", val |-> None, called |-> 0]

\* the match of an UpdateScan call on the scan below
UpdateCall(op, c, f, v) ==
    IF c.kind = "ReadOnly" THEN InvalidCall(c) ELSE Delegate(op, c, f, v)

\* variant of SelectScan::move_next that stops on the next record of the scan
\* below, satisfied or not
SelectScanMoveNextAny(c, pred, called) ==
    [c |-> ScanMoveNext(c).sc, res |-> IF ScanMoveNext(c).found THEN "true" ELSE "false",
     val |-> None, called |-> called + 1]

\* SelectScan::move_next, called the calls of move_next of the scan below so far
RECURSIVE SelectScanMoveNext(_, _, _)
SelectScanMoveNext(c, pred, called) ==
    LET r == ScanMoveNext(c)
        sat == IsSatisfied(pred, r.sc.a, r.sc.b, r.sc, r.sc)
    IN IF ~r.found THEN [c |-> r.sc, res |-> "false", val |-> None, called |-> called + 1]
       ELSE IF sat = "err" THEN [c |-> r.sc, res |-> "err", val |-> None, called |-> called + 1]
       ELSE IF sat = "ok" THEN [c |-> r.sc, res |-> "true", val |-> None, called |-> called + 1]
       ELSE SelectScanMoveNext(r.sc, pred, called + 1)

\* a call of the SelectScan
SelectCall(op, c, pred, f, v) ==
    CASE op = "move_next" -> SelectScanMoveNext(c, pred, 0)
      [] op \in {"before_first", "get_val"} -> Delegate(op, c, f, v)
      [] OTHER -> UpdateCall(op, c, f, v)

\* variant of the ProjectScan that hands get_val and set_val to the scan
\* below whatever the field
ProjectCallAnyField(op, c, fields, f, v) ==
    CASE op \in {"before_first", "move_next", "get_val"} -> Delegate(op, c, f, v)
      [] OTHER -> UpdateCall(op, c, f, v)

\* a call of the ProjectScan
ProjectCall(op, c, fields, f, v) ==
    CASE op \in {"before_first", "move_next"} -> Delegate(op, c, f, v)
      [] op = "get_val" -> IF f \in fields THEN Delegate(op, c, f, v) ELSE InvalidCall(c)
      [] op = "set_val" -> IF f \in fields THEN UpdateCall(op, c, f, v) ELSE InvalidCall(c)
      [] OTHER -> UpdateCall(op, c, f, v)

\* ProjectScan::new
ProjectNew(c, fields) ==
    IF \E f \in fields : f \notin ChildFields THEN "InvalidCall" ELSE "Ok"

\* ------------------------------------------------------------ StatManager
StatTables == {"t1", "t2"}

\* DashMap::new(): no statistics for any table
NoStats == [t \in StatTables |-> None]

\* sm_last of a manager that served no call yet
SmNoCall == [nth |-> 0, table |-> "t1", before |-> NoStats, tblcat |-> {},
             rows |-> [t \in StatTables |-> 0], refreshed |-> FALSE,
             scanned |-> {}, ret |-> None]

\* variant of the test of get_field_stat that refreshes on the 100th call
RefreshAtThreshold(calls) == calls >= RefreshThreshold

\* the test of get_field_stat on the incremented num_calls
NeedsRefresh(calls) == calls > RefreshThreshold

\* calc_table_stats: num_records of the table (one entry per field of the
\* table is inserted, all with this num_records)
CalcTableStats(rows, table_name) == rows[table_name]

\* refresh_statistics: clear, then calc_table_stats for every table of tblcat
RefreshStatistics(tblcat, rows) ==
    [t \in StatTables |-> IF t \in tblcat THEN CalcTableStats(rows, t) ELSE None]

\* the lookup of get_field_stat in the cache fs: the statistics cached, or
\* on a miss those calc_table_stats computes for the table (get_layout
\* fails for a table that is not in tblcat)
LookupStat(fs, tblcat, rows, table_name) ==
    IF fs[table_name] # None THEN [fs |-> fs, ret |-> fs[table_name], scanned |-> {}]
    ELSE IF table_name \notin tblcat THEN [fs |-> fs, ret |-> None, scanned |-> {}]
    ELSE [fs |-> [fs EXCEPT ![table_name] = CalcTableStats(rows, table_name)],
          ret |-> CalcTableStats(rows, table_name), scanned |-> {table_name}]

\* -------------------------------------------------------------------- Page
\* Page::new_from_size: the bytes of the page, at the offsets 0..blocksize-1
NewFromSize(blocksize) == [i \in 0..(blocksize - 1) |-> 0]

\* the bytes bb[from..to), as a sequence
Slice(bb, from, to) == [k \in 1..(to - from) |-> bb[from + k - 1]]

\* copy_from_slice: the bytes b written at bb[pos..pos + len)
CopyFromSlice(bb, pos, b) ==
    [i \in DOMAIN bb |-> IF i >= pos /\ i < pos + Len(b) THEN b[i - pos + 1] ELSE bb[i]]

\* variant of to_be_bytes that puts the least significant byte first
ToLeBytes(n) ==
    <<n % 256, (n % 65536) \div 256, (n % 16777216) \div 65536, (n \div 16777216) % 256>>

\* i32::to_be_bytes, two's complement
ToBeBytes(n) ==
    <<(n \div 16777216) % 256, (n % 16777216) \div 65536, (n % 65536) \div 256, n % 256>>

\* i32::from_be_bytes
FromBeBytes(bytes) ==
    (IF bytes[1] >= 128 THEN bytes[1] - 256 ELSE bytes[1]) * 16777216
    + bytes[2] * 65536 + bytes[3] * 256 + bytes[4]

\* Page::get_int
PageGetInt(bb, offset) == FromBeBytes(Slice(bb, offset, offset + INTEGER_BYTE_LEN))

\* Page::set_int
PageSetInt(bb, offset, n) == CopyFromSlice(bb, offset, ToBeBytes(n))

\* Page::get_bytes
PageGetBytes(bb, offset) ==
    Slice(bb, offset + INTEGER_BYTE_LEN, offset + INTEGER_BYTE_LEN + PageGetInt(bb, offset))

\* Page::set_bytes
PageSetBytes(bb, offset, b) ==
    CopyFromSlice(PageSetInt(bb, offset, Len(b)), offset + INTEGER_BYTE_LEN, b)

\* the UTF-8 encoding of a character of the basic multilingual plane
Utf8Char(c) ==
    IF c < 128 THEN <<c>>
    ELSE IF c < 2048 THEN <<192 + (c \div 64), 128 + (c % 64)>>
    ELSE <<224 + (c \div 4096), 128 + ((c \div 64) % 64), 128 + (c % 64)>>

RECURSIVE AsBytes(_)
\* str::as_bytes, the string a sequence of characters
AsBytes(s) == IF s = <<>> THEN <<>> ELSE Utf8Char(Head(s)) \o AsBytes(Tail(s))

IsContinuation(byte) == byte >= 128 /\ byte < 192

RECURSIVE FromUtf8(_)
\* String::from_utf8 for sequences of up to three bytes per character: the
\* characters, or <<None>> for FromUtf8Error
FromUtf8(b) ==
    IF b = <<>> THEN <<>>
    ELSE LET n == IF b[1] < 128 THEN 1
                  ELSE IF b[1] >= 194 /\ b[1] < 224 /\ Len(b) >= 2 /\ IsContinuation(b[2]) THEN 2
                  ELSE IF /\ b[1] >= 224 /\ b[1] < 240 /\ Len(b) >= 3
                          /\ IsContinuation(b[2]) /\ IsContinuation(b[3])
                          /\ (b[1] - 224) * 4096 + (b[2] - 128) * 64 >= 2048 THEN 3
                  ELSE 0
             c == IF n = 1 THEN b[1]
                  ELSE IF n = 2 THEN (b[1] - 192) * 64 + (b[2] - 128)
                  ELSE (b[1] - 224) * 4096 + (b[2] - 128) * 64 + (b[3] - 128)
             rest == FromUtf8(SubSeq(b, n + 1, Len(b)))
         IN IF n = 0 \/ rest = <<None>> THEN <<None>> ELSE <<c>> \o rest

\* Page::get_string
PageGetString(bb, offset) == FromUtf8(PageGetBytes(bb, offset))

\* Page::set_string
PageSetString(bb, offset, s) == PageSetBytes(bb, offset, AsBytes(s))

\* ------------------------------------------------------------ Lexer, Parser
\* texts are sequences of characters; the characters of the texts parsed
Digits == <<"0", "1", "2", "3", "4", "5", "6", "7", "8", "9">>
NumericChars == {Digits[i] : i \in 1..10}
AlphabeticChars == {"a", "b", "c", "d", "e", "f", "g", "h", "i", "j", "k", "l", "m",
                    "n", "o", "p", "q", "r", "s", "t", "u", "v", "w", "x", "y", "z"}
AlphanumericChars == AlphabeticChars \cup NumericChars
WhitespaceChars == {" "}
TextChars == AlphanumericChars \cup WhitespaceChars \cup {"_", "'", ",", "=", "-", ";"}

\* the keywords of the parser
KEYWORDS == {
    <<"s", "e", "l", "e", "c", "t">>,
    <<"f", "r", "o", "m">>,
    <<"w", "h", "e", "r", "e">>,
    <<"a", "n", "d">>,
    <<"i", "n", "s", "e", "r", "t">>,
    <<"i", "n", "t", "o">>,
    <<"v", "a", "l", "u", "e", "s">>,
    <<"d", "e", "l", "e", "t", "e">>,
    <<"u", "p", "d", "a", "t", "e">>,
    <<"s", "e", "t">>,
    <<"c", "r", "e", "a", "t", "e">>,
    <<"t", "a", "b", "l", "e">>,
    <<"v", "i", "e", "w">>,
    <<"i", "n", "d", "e", "x">>,
    <<"a", "s">>,
    <<"o", "n">>,
    <<"i", "n", "t">>,
    <<"v", "a", "r", "c", "h", "a", "r">>}

\* Token
KeywordToken(sval) == [kind |-> "Keyword", s |-> sval, n |-> 0]
IdToken(sval) == [kind |-> "Id", s |-> sval, n |-> 0]
DelimiterToken(c) == [kind |-> "Delimiter", s |-> <<c>>, n |-> 0]
StringConstantToken(str) == [kind |-> "StringConstant", s |-> str, n |-> 0]
IntConstantToken(val) == [kind |-> "IntConstant", s |-> <<>>, n |-> val]
NoneToken == [kind |-> "None", s |-> <<>>, n |-> 0]
\* read_token returned Err, or an eat found another token than it expects
ErrToken == [kind |-> "Err", s |-> <<>>, n |-> 0]
\* read_token sliced the input past its end
PanicToken == [kind |-> "Panic", s |-> <<>>, n |-> 0]

\* the index of the first character at or after index from that is not in
\* the set cont, Len(input) + 1 when there is none
RunEnd(input, from, cont) ==
    LET stops == {i \in from..Len(input) : input[i] \notin cont}
    IN IF stops = {} THEN Len(input) + 1 ELSE Min(stops)

DigitValue(c) == CHOOSE d \in 0..9 : Digits[d + 1] = c

RECURSIVE ParseDigits(_, _)
\* str::parse::<i32> of a run of digits, None when it does not fit an i32
ParseDigits(num, acc) ==
    IF num = <<>> THEN acc
    ELSE IF acc > (2147483647 - DigitValue(Head(num))) \div 10 THEN None
    ELSE ParseDigits(Tail(num), acc * 10 + DigitValue(Head(num)))

\* the token of a numeric literal
NumberToken(num) ==
    IF ParseDigits(num, 0) = None THEN ErrToken ELSE IntConstantToken(ParseDigits(num, 0))

\* the match of read_token on the character c at index p + 1: str, num and
\* sval are the text of a string, number or word that starts there
ReadTokenAt(p, c, p1, str, num, sval) ==
    IF c = "'"
    THEN [token |-> StringConstantToken(str), position |-> p + Len(str) + 2]
    ELSE IF c \in NumericChars
    THEN [token |-> NumberToken(num), position |-> p1 + Len(num)]
    ELSE IF c \in AlphabeticChars \/ c = "_"
    THEN [token |-> IF sval \in KEYWORDS THEN KeywordToken(sval) ELSE IdToken(sval),
          position |-> p1 + Len(sval)]
    ELSE [token |-> DelimiterToken(c), position |-> p1 + 1]

\* read_token after the whitespace, p the position it has skipped to
ReadTokenFrom(input, p) ==
    IF p = Len(input) THEN [token |-> NoneToken, position |-> p]
    ELSE ReadTokenAt(p, input[p + 1],
                     IF input[p + 1] = "-" THEN p + 1 ELSE p,
                     SubSeq(input, p + 2, RunEnd(input, p + 2, TextChars \ {"'"}) - 1),
                     SubSeq(input, p + 1, RunEnd(input, p + 2, NumericChars) - 1),
                     SubSeq(input, p + 1, RunEnd(input, p + 2, AlphanumericChars) - 1))

\* Lexer::read_token from the byte position (0-based): the token and the
\* position after it.  A '-' advances the position by one and is then
\* handled as a delimiter, which advances it by one more.
ReadToken(input, position) ==
    IF position > Len(input) THEN [token |-> PanicToken, position |-> position]
    ELSE ReadTokenFrom(input, RunEnd(input, position + 1, WhitespaceChars) - 1)

\* Lexer::new
LexerNew(input) == ReadToken(input, 0)

\* an eat that does not find the token it expects: Err, which every later
\* call of the parser propagates
LexerFail(lexer) == [token |-> ErrToken, position |-> lexer.position]

\* Lexer::is_matched
IsMatched(lexer, token) == lexer.token = token

\* Lexer::eat_exact
EatExact(input, lexer, token) ==
    IF lexer.token = token THEN ReadToken(input, lexer.position) ELSE LexerFail(lexer)

\* Lexer::eat_id
EatId(input, lexer) ==
    IF lexer.token.kind = "Id"
    THEN [val |-> lexer.token.s, lexer |-> ReadToken(input, lexer.position)]
    ELSE [val |-> <<>>, lexer |-> LexerFail(lexer)]

\* Expression
FieldExpression(field_name) == [kind |-> "Field", s |-> field_name, n |-> 0]
IntExpression(val) == [kind |-> "Int", s |-> <<>>, n |-> val]
StringExpression(val) == [kind |-> "String", s |-> val, n |-> 0]

RECURSIVE IdListLoop(_, _, _)
RECURSIVE IdListNext(_, _, _)
\* the body of the loop, r the result of eat_id after the ","
IdListNext(input, r, fields) == IdListLoop(input, r.lexer, Append(fields, r.val))

IdListLoop(input, lexer, fields) ==
    IF IsMatched(lexer, DelimiterToken(","))
    THEN IdListNext(input, EatId(input, EatExact(input, lexer, DelimiterToken(","))), fields)
    ELSE [val |-> fields, lexer |-> lexer]

\* the list that starts with the first name, r the result of its eat_id
IdListFrom(input, r) == IdListLoop(input, r.lexer, <<r.val>>)

\* ParserImpl::parse_id_list
ParseIdList(input, lexer) == IdListFrom(input, EatId(input, lexer))

\* Parser::parse_expression, parse_constant
ParseExpression(input, lexer) ==
    IF lexer.token.kind = "IntConstant"
    THEN [val |-> IntExpression(lexer.token.n), lexer |-> ReadToken(input, lexer.position)]
    ELSE IF lexer.token.kind = "StringConstant"
    THEN [val |-> StringExpression(lexer.token.s), lexer |-> ReadToken(input, lexer.position)]
    ELSE IF lexer.token.kind = "Id"
    THEN [val |-> FieldExpression(lexer.token.s), lexer |-> ReadToken(input, lexer.position)]
    ELSE [val |-> FieldExpression(<<>>), lexer |-> LexerFail(lexer)]

\* the term of the two parsed expressions
EqualTermOf(lhs, rhs) == [val |-> [lhs |-> lhs.val, rhs |-> rhs.val], lexer |-> rhs.lexer]

\* the rest of parse_equal_term, lhs the result of the first parse_expression
EqualTermAfter(input, lhs) ==
    EqualTermOf(lhs, ParseExpression(input, EatExact(input, lhs.lexer, DelimiterToken("="))))

\* Parser::parse_equal_term
ParseEqualTerm(input, lexer) == EqualTermAfter(input, ParseExpression(input, lexer))

RECURSIVE PredicateLoop(_, _, _)
RECURSIVE PredicateNext(_, _, _)
\* the body of the loop, r the result of parse_equal_term after the "and"
PredicateNext(input, r, terms) == PredicateLoop(input, r.lexer, Append(terms, r.val))

PredicateLoop(input, lexer, terms) ==
    IF IsMatched(lexer, KeywordToken(<<"a", "n", "d">>))
    THEN PredicateNext(input,
                       ParseEqualTerm(input, EatExact(input, lexer, KeywordToken(<<"a", "n", "d">>))),
                       terms)
    ELSE [val |-> terms, lexer |-> lexer]

\* the predicate that starts with the first term, r the result of its parse
PredicateFrom(input, r) == PredicateLoop(input, r.lexer, <<r.val>>)

\* Parser::parse_predicate
ParsePredicate(input, lexer) == PredicateFrom(input, ParseEqualTerm(input, lexer))

\* no QueryData: parse_query returned Err or panicked
NoQuery == [ok |-> FALSE, fields |-> <<>>, tables |-> <<>>, terms |-> <<>>]

\* QueryData::new, when the parser did not fail on the way
QueryData(fields, tables, terms, lexer) ==
    IF lexer.token.kind \in {"Err", "Panic"} THEN NoQuery
    ELSE [ok |-> TRUE, fields |-> fields, tables |-> tables, terms |-> terms]

\* parse_query after the where clause
QueryWithPredicate(fields, tables, predicate) ==
    QueryData(fields.val, tables.val, predicate.val, predicate.lexer)

\* parse_query after the table list
QueryAfterTables(input, fields, tables) ==
    IF IsMatched(tables.lexer, KeywordToken(<<"w", "h", "e", "r", "e">>))
    THEN QueryWithPredicate(fields, tables,
             ParsePredicate(input, EatExact(input, tables.lexer, KeywordToken(<<"w", "h", "e", "r", "e">>))))
    ELSE QueryData(fields.val, tables.val, <<>>, tables.lexer)

\* parse_query after the field list
QueryAfterFields(input, fields) ==
    QueryAfterTables(input, fields,
        ParseIdList(input, EatExact(input, fields.lexer, KeywordToken(<<"f", "r", "o", "m">>))))

\* ParserImpl::new and Parser::parse_query
ParseQuery(input) ==
    QueryAfterFields(input,
        ParseIdList(input, EatExact(input, LexerNew(input), KeywordToken(<<"s", "e", "l", "e", "c", "t">>))))

RECURSIVE IntToChars(_)
\* Display of an i32
IntToChars(n) ==
    IF n < 0 THEN <<"-">> \o IntToChars(0 - n)
    ELSE IF n < 10 THEN <<Digits[n + 1]>>
    ELSE IntToChars(n \div 10) \o <<Digits[(n % 10) + 1]>>

\* variant of the Display of Constant that prints a string without quotes
BareConstantToString(e) == IF e.kind = "Int" THEN IntToChars(e.n) ELSE e.s

\* Display of Expression and of Constant
ExpressionToString(e) ==
    IF e.kind = "Int" THEN IntToChars(e.n)
    ELSE IF e.kind = "String" THEN <<"'">> \o e.s \o <<"'">>
    ELSE e.s

\* Display of EqualTerm
TermToString(term) ==
    ExpressionToString(term.lhs) \o <<" ", "=", " ">> \o ExpressionToString(term.rhs)

RECURSIVE JoinIds(_)
\* the loops of the Display of QueryData: the names, ", " between them
JoinIds(ids) ==
    IF ids = <<>> THEN <<>>
    ELSE IF Len(ids) = 1 THEN ids[1]
    ELSE ids[1] \o <<",", " ">> \o JoinIds(Tail(ids))

RECURSIVE PredicateToString(_)
\* Display of ProductPredicate
PredicateToString(terms) ==
    IF terms = <<>> THEN <<>>
    ELSE IF Len(terms) = 1 THEN TermToString(terms[1])
    ELSE TermToString(terms[1]) \o <<" ", "a", "n", "d", " ">> \o PredicateToString(Tail(terms))

\* Display of QueryData
QueryToString(q) ==
    <<"s", "e", "l", "e", "c", "t", " ">> \o JoinIds(q.fields)
    \o <<" ", "f", "r", "o", "m", " ">> \o JoinIds(q.tables)
    \o (IF PredicateToString(q.terms) # <<>>
        THEN <<" ", "w", "h", "e", "r", "e", " ">> \o PredicateToString(q.terms) ELSE <<>>)

LogLen(m) == Len(Flatten(SubSeq(m.dlog, 1, m.cur))) + Len(m.page)

QueuesWithinBound(m) == \A b \in LockKeys : Len(m.queues[b]) <= MaxQueue

Running(t) == tx_status[t] = "active" /\ ~needs_recover

NotWritten == [b \in Blocks |-> [o \in Offsets |-> None]]

InitMem ==
    /\ buffer_pool = [i \in Buffers |-> NewBuffer]
    /\ num_available = NumBuffs
    /\ disk = [b \in Blocks |-> [o \in Offsets |-> 0]]
    /\ disk_log = << <<>> >>
    /\ log_page = <<>>
    /\ current_block = 0
    /\ latest_lsn = 0
    /\ last_saved_lsn = 0
    /\ locks = [b \in LockKeys |-> NoLock]
    /\ queues = [b \in LockKeys |-> <<>>]
    /\ park_token = [t \in Txs |-> FALSE]
    /\ cm_locks = [t \in Txs |-> [b \in LockKeys |-> "None"]]
    /\ bl_pins = [t \in Txs |-> [b \in Blocks |-> 0]]
    /\ bl_buffers = [t \in Txs |-> [b \in Blocks |-> NoBuf]]

InitTx ==
    /\ next_txnum = 0
    /\ needs_recover = FALSE
    /\ tx_status = [t \in Txs |-> "none"]
    /\ tx_num = [t \in Txs |-> 0]
    /\ tx_before = [t \in Txs |-> NotWritten]

InitTh ==
    /\ th_pc = [t \in Threads |-> "idle"]
    /\ th_blk = [t \in Threads |-> 0]
    /\ th_idx = [t \in Threads |-> 0]
    /\ th_buf = [t \in Threads |-> NoBuf]
    /\ th_held = [t \in Threads |-> [i \in Buffers |-> 0]]
    /\ poisoned = {}

InitLg ==
    /\ lg_pc = "append"
    /\ lg_appended = <<>>
    /\ lg_it = [block |-> 0, page |-> <<>>, pos |-> 0]
    /\ lg_rit = [block |-> 0, list |-> <<>>, idx |-> 0]
    /\ lg_fwd = <<>>
    /\ lg_rev = <<>>

InitLa ==
    /\ la_pc = [th \in Threads |-> "idle"]
    /\ la_rec = [th \in Threads |-> CheckPointRec]
    /\ la_boundary = [th \in Threads |-> 0]
    /\ la_calls = 0
    /\ la_ret = <<>>

InitLt ==
    /\ lt_lock = 0
    /\ lt_present = FALSE
    /\ lt_queue = <<>>
    /\ lt_shard = 0
    /\ lt_pc = [th \in Lockers |-> "idle"]
    /\ lt_op = [th \in Lockers |-> "unlock"]
    /\ lt_holds = [th \in Lockers |-> "None"]
    /\ lt_token = [th \in Lockers |-> FALSE]
    /\ lt_stale = [th \in Lockers |-> FALSE]
    /\ lt_orphan = [th \in Lockers |-> FALSE]
    /\ lt_res = [th \in Lockers |-> "Ok"]
    /\ lt_rounds = [th \in Lockers |-> 0]

InitEof == eof_seen = [t \in Txs |-> [n |-> 0, len |-> 0]]

InitFa ==
    /\ fa_pc = [th \in Appenders |-> "idle"]
    /\ fa_blknum = [th \in Appenders |-> 0]
    /\ fa_ret = <<>>

InitEnd == end_held = [t \in Txs |-> [pins |-> 0, locks |-> 0, call |-> "none"]]

InitPins ==
    /\ bp_out = [t \in Txs |-> [b \in Blocks |-> 0]]
    /\ bp_last = [t |-> 1, blk |-> 0, out |-> 0, err |-> "none", changed |-> FALSE]

InitCr ==
    /\ cr_th = [th \in Threads |-> [pc |-> "idle", call |-> "none", rec |-> CheckPointRec,
                                    boundary |-> 0, lsn |-> 0, tx |-> 0]]
    /\ cr_mutex = 0
    /\ cr_made = <<>>

\* TableScanFactory::create on a new table: one block is appended and formatted
InitTs ==
    /\ ts_file = <<Format(ZeroPage)>>
    /\ ts_block = 0
    /\ ts_slot = None
    /\ ts_scan = "off"
    /\ ts_visited = <<>>
    /\ ts_expect = [r \in Rids |-> NoRecord]

InitPs ==
    /\ ps_s1 = [n |-> 0, pos |-> 0]
    /\ ps_s2 = [n |-> 0, pos |-> 0]
    /\ ps_state = "none"
    /\ ps_out = <<>>

InitQs ==
    /\ qs_t1 = <<>>
    /\ qs_t2 = <<>>
    /\ qs_pred = {}
    /\ qs_fields = {}
    /\ qs_s1 = [n |-> 0, pos |-> 0]
    /\ qs_s2 = [n |-> 0, pos |-> 0]
    /\ qs_state = "none"
    /\ qs_out = <<>>

InitFm ==
    /\ fm_page = ZeroPage
    /\ fm_log = <<>>

InitSm ==
    /\ sm_tblcat = {}
    /\ sm_rows = [t \in StatTables |-> 0]
    /\ num_calls = 0
    /\ field_stats = NoStats
    /\ sm_served = 0
    /\ sm_rebuilds = 0
    /\ sm_last = SmNoCall

InitPg ==
    /\ pg_bb = NewFromSize(PageSize)
    /\ pg_ops = 0
    /\ pg_last = [kind |-> "none", offset |-> 0, n |-> 0, b |-> <<>>, s |-> <<>>,
                  before |-> NewFromSize(PageSize)]

InitPr ==
    /\ pr_input = <<>>
    /\ pr_q = NoQuery
    /\ pr_q2 = NoQuery
    /\ pr_state = "none"

InitCc ==
    /\ cc_acq = [t \in Txs |-> [b \in LockKeys |-> 0]]
    /\ cc_pro = [t \in Txs |-> [b \in LockKeys |-> 0]]
    /\ cc_last = [op |-> "none", t |-> 1, blk |-> 0, err |-> "Ok", cm |-> cm_locks, locks |-> locks,
                  called |-> FALSE]

InitPw ==
    /\ pw_pc = [th \in Threads |-> "idle"]
    /\ pw_blk = [th \in Threads |-> 0]
    /\ pw_buf = [th \in Threads |-> NoBuf]
    /\ pw_expired = [th \in Threads |-> FALSE]
    /\ pw_signal = [th \in Threads |-> FALSE]
    /\ pw_calls = [th \in Threads |-> 0]
    /\ pw_retried = [th \in Threads |-> FALSE]
    /\ pw_free = [th \in Threads |-> FALSE]
    /\ pw_missed = [th \in Threads |-> FALSE]

InitSl ==
    /\ sl_wrap = "none"
    /\ sl_child = [n |-> 0, pos |-> 0, a |-> <<>>, b |-> <<>>, kind |-> "ReadOnly"]
    /\ sl_pred = {}
    /\ sl_fields = {}
    /\ sl_out = <<>>
    /\ sl_scanning = FALSE
    /\ sl_last = [op |-> "none", f |-> "a", res |-> "Ok", called |-> 0, same |-> TRUE]

InitDp ==
    /\ dp_pool = [i \in 1..NumDupBuffs |-> [block |-> None, pins |-> 0]]
    /\ dp_avail = NumDupBuffs
    /\ dp_pc = [th \in Threads |-> "idle"]
    /\ dp_blk = [th \in Threads |-> 0]
    /\ dp_idx = [th \in Threads |-> 1]
    /\ dp_buf = [th \in Threads |-> NoBuf]
    /\ dp_held = [th \in Threads |-> [i \in 1..NumDupBuffs |-> 0]]
    /\ dp_poisoned = {}

InitHigh == InitEnd /\ InitPins /\ InitCr /\ InitTs /\ InitPs /\ InitQs /\ InitFm /\ InitSm /\ InitPg /\ InitPr /\ InitCc /\ InitPw /\ InitSl /\ InitDp

\* the data file holds the blocks 0..MaxBlock, all zero
Init ==
    /\ InitMem /\ file_len = MaxBlock + 1
    /\ InitTx /\ InitTh /\ InitLg /\ InitLa /\ InitLt /\ InitEof /\ InitFa /\ InitHigh

\* the data file is new: it has no block
InitEmpty ==
    /\ InitMem /\ file_len = 0
    /\ InitTx /\ InitTh /\ InitLg /\ InitLa /\ InitLt /\ InitEof /\ InitFa /\ InitHigh

\* TransactionFactory::create; the new Transaction takes the first free handle
Create(t) ==
    /\ tx_status[t] = "none"
    /\ \A u \in Txs : u < t => tx_status[u] # "none"
    /\ needs_recover => \A u \in Txs : tx_status[u] = "none"
    /\ next_txnum < MaxTxNum
    /\ next_txnum' = next_txnum + 1
    /\ Install(LogStart(St, next_txnum + 1))
    /\ tx_num' = [tx_num EXCEPT ![t] = next_txnum + 1]
    /\ tx_status' = [tx_status EXCEPT ![t] = "active"]
    /\ tx_before' = [tx_before EXCEPT ![t] = NotWritten]
    /\ UNCHANGED <<needs_recover, thvars, stepvars>>

\* Transaction::pin
Pin(t, blk) ==
    /\ Running(t)
    /\ bl_pins[t][blk] < MaxPins
    /\ LET r == BlPin(St, t, blk)
       IN /\ Install(r.m)
    /\ UNCHANGED <<txvars, thvars, stepvars>>

\* Transaction::unpin
Unpin(t, blk) ==
    /\ Running(t)
    /\ LET r == BlUnpin(St, t, blk)
       IN /\ Install(r.m)
    /\ UNCHANGED <<txvars, thvars, stepvars>>

\* Transaction::get_int
GetInt(t, blk, off) ==
    /\ Running(t)
    /\ LET r == TxGetInt(St, t, blk, off)
       IN /\ QueuesWithinBound(r.m)
          /\ Install(r.m)
    /\ UNCHANGED <<txvars, thvars, stepvars>>

\* Transaction::set_int
SetInt(t, blk, off, val, is_ok_to_log) ==
    /\ Running(t)
    /\ LET r == TxSetInt(St, t, tx_num[t], blk, off, val, is_ok_to_log)
       IN /\ QueuesWithinBound(r.m)
          /\ Install(r.m)
          /\ tx_before' = IF r.err = "Ok" /\ tx_before[t][blk][off] = None
                          THEN [tx_before EXCEPT ![t][blk][off] =
                                   buffer_pool[bl_buffers[t][blk]].contents[off]]
                          ELSE tx_before
    /\ UNCHANGED <<next_txnum, needs_recover, tx_status, tx_num, thvars, stepvars>>

\* Transaction::commit
Commit(t) ==
    /\ Running(t)
    /\ LET r == TxCommit(St, t, tx_num[t])
       IN /\ Install(r.m)
          /\ tx_status' = [tx_status EXCEPT ![t] = IF r.err = "Ok" THEN "none" ELSE "active"]
          /\ tx_before' = IF r.err = "Ok" THEN [tx_before EXCEPT ![t] = NotWritten] ELSE tx_before
    /\ UNCHANGED <<next_txnum, needs_recover, tx_num, thvars, stepvars>>

\* Transaction::rollback
Rollback(t) ==
    /\ Running(t)
    /\ LET r == TxRollback(St, t, tx_num[t])
       IN /\ QueuesWithinBound(r.m)
          /\ Install(r.m)
          /\ tx_status' = [tx_status EXCEPT ![t] = IF r.err = "Ok" THEN "none" ELSE "active"]
          /\ tx_before' = IF r.err = "Ok" THEN [tx_before EXCEPT ![t] = NotWritten] ELSE tx_before
    /\ UNCHANGED <<next_txnum, needs_recover, tx_num, thvars, stepvars>>

\* Transaction::recover, called while no other transaction is active.
\* A recover that returns an error is not tried again: the handle is
\* given up ("failed") with the pins and locks it holds.
Recover(t) ==
    /\ tx_status[t] = "active"
    /\ \A u \in Txs \ {t} : tx_status[u] = "none"
    /\ LET r == TxRecover(St, t, tx_num[t])
       IN /\ QueuesWithinBound(r.m)
          /\ Install(r.m)
          /\ needs_recover' = (needs_recover /\ r.err # "Ok")
          /\ tx_status' = [tx_status EXCEPT ![t] = IF r.err = "Ok" THEN "active" ELSE "failed"]
    /\ UNCHANGED <<next_txnum, tx_num, tx_before, thvars, stepvars>>

\* The process dies and is started again: memory is lost, the files stay.
\* The managers are constructed anew (LogManager::new reads the last block
\* of the log file, BufferManager::new, LockTable::new, TransactionFactory::new).
Crash ==
    /\ buffer_pool' = [i \in Buffers |-> NewBuffer]
    /\ num_available' = NumBuffs
    /\ log_page' = LogBlock(disk_log, Len(disk_log) - 1)
    /\ current_block' = Len(disk_log) - 1
    /\ latest_lsn' = 0
    /\ last_saved_lsn' = 0
    /\ locks' = [b \in LockKeys |-> NoLock]
    /\ queues' = [b \in LockKeys |-> <<>>]
    /\ park_token' = [t \in Txs |-> FALSE]
    /\ cm_locks' = [t \in Txs |-> [b \in LockKeys |-> "None"]]
    /\ bl_pins' = [t \in Txs |-> [b \in Blocks |-> 0]]
    /\ bl_buffers' = [t \in Txs |-> [b \in Blocks |-> NoBuf]]
    /\ next_txnum' = 0
    /\ needs_recover' = TRUE
    /\ tx_status' = [t \in Txs |-> "none"]
    /\ tx_num' = [t \in Txs |-> 0]
    /\ tx_before' = [t \in Txs |-> NotWritten]
    /\ UNCHANGED <<disk, file_len, disk_log, thvars, stepvars>>

\* the log has room for one more record under the cap k
Room(k) == LogLen(St) < k

Next ==
    \/ \E t \in Txs : Room(MaxLog) /\ Create(t)
    \/ \E t \in Txs, b \in Blocks : Pin(t, b)
    \/ \E t \in Txs, b \in Blocks : Unpin(t, b)
    \/ \E t \in Txs, b \in Blocks, o \in Offsets : GetInt(t, b, o)
    \/ \E t \in Txs, b \in Blocks, o \in Offsets, v \in Values : Room(MaxLog) /\ SetInt(t, b, o, v, TRUE)
    \/ \E t \in Txs, b \in Blocks, o \in Offsets, v \in Values : SetInt(t, b, o, v, FALSE)
    \/ \E t \in Txs : Room(MaxLog) /\ Commit(t)
    \/ \E t \in Txs : Room(MaxLog) /\ Rollback(t)
    \/ \E t \in Txs : Room(MaxLog) /\ Recover(t)
    \/ Crash

Spec == Init /\ [][Next]_vars

\* ------------------------------- SpecLock: concurrent transactions, locking
NextLock ==
    \/ \E t \in Txs : Room(MaxLog) /\ Create(t)
    \/ \E t \in Txs, b \in Blocks : Pin(t, b)
    \/ \E t \in Txs, b \in Blocks, o \in Offsets : GetInt(t, b, o)
    \/ \E t \in Txs, b \in Blocks, o \in Offsets, v \in Values : Room(MaxLog) /\ SetInt(t, b, o, v, TRUE)
    \/ \E t \in Txs : Room(MaxLog) /\ Commit(t)
    \/ \E t \in Txs : Room(MaxLog) /\ Rollback(t)

SpecLock == Init /\ [][NextLock]_vars

\* ------------------ SpecWal: one transaction after the other, write-ahead log
Alone(t) == \A u \in Txs \ {t} : tx_status[u] = "none"

NextWal ==
    \/ \E t \in Txs : Alone(t) /\ Room(MaxLogWal) /\ Create(t)
    \/ \E t \in Txs, b \in Blocks : Pin(t, b)
    \/ \E t \in Txs, b \in Blocks : Unpin(t, b)
    \/ \E t \in Txs, b \in Blocks, o \in Offsets, v \in Values : Room(MaxLogWal) /\ SetInt(t, b, o, v, TRUE)
    \/ \E t \in Txs, b \in Blocks, o \in Offsets, v \in Values : SetInt(t, b, o, v, FALSE)
    \/ \E t \in Txs : Room(MaxLogWal) /\ Commit(t)
    \/ \E t \in Txs : Room(MaxLogWal) /\ Rollback(t)

SpecWal == Init /\ [][NextWal]_vars

\* ------ SpecTx: one transaction after the other, commit and rollback
NextTx ==
    \/ \E t \in Txs : Alone(t) /\ Room(MaxLogTx) /\ Create(t)
    \/ \E t \in Txs, b \in Blocks : Pin(t, b)
    \/ \E t \in Txs, b \in Blocks, o \in Offsets, v \in Values : Room(MaxLogTx) /\ SetInt(t, b, o, v, TRUE)
    \/ \E t \in Txs, b \in Blocks, o \in Offsets, v \in Values : SetInt(t, b, o, v, FALSE)
    \/ \E t \in Txs : Room(MaxLogTx) /\ Commit(t)
    \/ \E t \in Txs : Room(MaxLogTx) /\ Rollback(t)

SpecTx == Init /\ [][NextTx]_vars

\* ------ SpecRec: one transaction after the other, crash, restart and recovery
\* (the cap MaxLogRec is for running transactions; a restart may add the
\* Start record of the recovering transaction and its CheckPoint record)
NextRec ==
    \/ \E t \in Txs : Alone(t) /\ Room(IF needs_recover THEN MaxLogRec + 1 ELSE MaxLogRec) /\ Create(t)
    \/ \E t \in Txs, b \in Blocks : Pin(t, b)
    \/ \E t \in Txs, b \in Blocks : Unpin(t, b)
    \/ \E t \in Txs, b \in Blocks, o \in Offsets, v \in Values : Room(MaxLogRec) /\ SetInt(t, b, o, v, TRUE)
    \/ \E t \in Txs : Room(MaxLogRec) /\ Commit(t)
    \/ \E t \in Txs : Room(MaxLogRec) /\ Rollback(t)
    \/ \E t \in Txs : Room(MaxLogRec + 2) /\ Recover(t)
    \/ Crash

SpecRec == Init /\ [][NextRec]_vars

\* ------ SpecRestart: one transaction after the other; the process stops and
\* ------ SimpleDB::with_params starts it again, which constructs the managers
\* ------ and the TransactionFactory over the files and calls no recover
Restart ==
    /\ buffer_pool' = [i \in Buffers |-> NewBuffer]
    /\ num_available' = NumBuffs
    /\ log_page' = LogBlock(disk_log, Len(disk_log) - 1)
    /\ current_block' = Len(disk_log) - 1
    /\ latest_lsn' = 0
    /\ last_saved_lsn' = 0
    /\ locks' = [b \in LockKeys |-> NoLock]
    /\ queues' = [b \in LockKeys |-> <<>>]
    /\ park_token' = [t \in Txs |-> FALSE]
    /\ cm_locks' = [t \in Txs |-> [b \in LockKeys |-> "None"]]
    /\ bl_pins' = [t \in Txs |-> [b \in Blocks |-> 0]]
    /\ bl_buffers' = [t \in Txs |-> [b \in Blocks |-> NoBuf]]
    /\ next_txnum' = 0
    /\ tx_status' = [t \in Txs |-> "none"]
    /\ tx_num' = [t \in Txs |-> 0]
    /\ tx_before' = [t \in Txs |-> NotWritten]
    /\ UNCHANGED <<disk, file_len, disk_log, needs_recover, thvars, stepvars>>

NextRestart ==
    \/ \E t \in Txs : Alone(t) /\ Room(MaxLogRec) /\ Create(t)
    \/ \E t \in Txs, b \in Blocks : Pin(t, b)
    \/ \E t \in Txs, b \in Blocks, o \in Offsets, v \in Values : Room(MaxLogRec) /\ SetInt(t, b, o, v, TRUE)
    \/ \E t \in Txs : Room(MaxLogRec) /\ Commit(t)
    \/ \E t \in Txs : Room(MaxLogRec + 2) /\ Recover(t)
    \/ Restart

SpecRestart == Init /\ [][NextRestart]_vars

\* ------------- SpecBM: threads inside BufferManager::pin / unpin, one step
\* ------------- per critical section of a buffer's mutex
NumAvailableMutex == 0

Held(th) == LET RECURSIVE Sum(_)
                Sum(i) == IF i > NumBuffs THEN 0 ELSE th_held[th][i] + Sum(i + 1)
            IN Sum(1)

\* the call returns an error (BufferManagerError::Lock or ::Pin) to its caller
ReturnErr(th) ==
    /\ th_pc' = [th_pc EXCEPT ![th] = "idle"]
    /\ UNCHANGED <<mvars, txvars, stepvars, th_blk, th_idx, th_buf, th_held, poisoned>>

\* the counters are within MaxDrift of the range they have without wrapping
WithinDrift ==
    /\ num_available \in (0 - MaxDrift)..(NumBuffs + MaxDrift)
    /\ \A i \in Buffers : buffer_pool[i].pins \in (0 - MaxDrift)..(NumThreads * MaxHeld + MaxDrift)

\* BufferManager::pin is entered
PinCall(th, blk) ==
    /\ th_pc[th] = "idle"
    /\ Held(th) < MaxHeld
    /\ WithinDrift
    /\ th_pc' = [th_pc EXCEPT ![th] = "find"]
    /\ th_blk' = [th_blk EXCEPT ![th] = blk]
    /\ th_idx' = [th_idx EXCEPT ![th] = 1]
    /\ th_buf' = [th_buf EXCEPT ![th] = NoBuf]
    /\ UNCHANGED <<mvars, txvars, stepvars, th_held, poisoned>>

\* one iteration of the loop of find_existing_buffer
FindStep(th) ==
    /\ th_pc[th] = "find"
    /\ LET i == th_idx[th]
       IN IF i \in poisoned THEN ReturnErr(th)
          ELSE /\ IF buffer_pool[i].block = th_blk[th]
                  THEN /\ th_pc' = [th_pc EXCEPT ![th] = "pin"]
                       /\ th_buf' = [th_buf EXCEPT ![th] = i]
                       /\ UNCHANGED th_idx
                  ELSE IF i < NumBuffs
                  THEN /\ th_idx' = [th_idx EXCEPT ![th] = i + 1]
                       /\ UNCHANGED <<th_pc, th_buf>>
                  ELSE /\ th_pc' = [th_pc EXCEPT ![th] = "choose"]
                       /\ th_idx' = [th_idx EXCEPT ![th] = 1]
                       /\ UNCHANGED th_buf
               /\ UNCHANGED <<mvars, txvars, stepvars, th_blk, th_held, poisoned>>

\* one iteration of the loop of choose_unpinned_buffer
ChooseStep(th) ==
    /\ th_pc[th] = "choose"
    /\ LET i == th_idx[th]
       IN IF i \in poisoned THEN ReturnErr(th)
          ELSE /\ IF ~IsPinned(buffer_pool[i])
                  THEN /\ th_pc' = [th_pc EXCEPT ![th] = "assign"]
                       /\ th_buf' = [th_buf EXCEPT ![th] = i]
                       /\ UNCHANGED th_idx
                  ELSE IF i < NumBuffs
                  THEN /\ th_idx' = [th_idx EXCEPT ![th] = i + 1]
                       /\ UNCHANGED <<th_pc, th_buf>>
                  ELSE /\ th_pc' = [th_pc EXCEPT ![th] = "none"]
                       /\ UNCHANGED <<th_idx, th_buf>>
               /\ UNCHANGED <<mvars, txvars, stepvars, th_blk, th_held, poisoned>>

\* try_to_pin locks the chosen buffer again and assigns it to the block
AssignStep(th) ==
    /\ th_pc[th] = "assign"
    /\ IF th_buf[th] \in poisoned THEN ReturnErr(th)
       ELSE /\ Install(AssignToBlock(St, th_buf[th], th_blk[th]))
            /\ th_pc' = [th_pc EXCEPT ![th] = "pin"]
            /\ UNCHANGED <<txvars, stepvars, th_blk, th_idx, th_buf, th_held, poisoned>>

\* try_to_pin locks the buffer a last time: num_available, then Buffer::pin.
\* `*num_available -= 1` at 0 panics in a build with overflow checks (both
\* mutexes are held and become poisoned) and wraps in a build without.
PinStep(th) ==
    /\ th_pc[th] = "pin"
    /\ LET i == th_buf[th]
       IN IF i \in poisoned \/ (~IsPinned(buffer_pool[i]) /\ NumAvailableMutex \in poisoned)
          THEN ReturnErr(th)
          ELSE \/ /\ Install(PinBuffer(St, i))
                  /\ th_held' = [th_held EXCEPT ![th][i] = th_held[th][i] + 1]
                  /\ th_pc' = [th_pc EXCEPT ![th] = "idle"]
                  /\ UNCHANGED <<txvars, stepvars, th_blk, th_idx, th_buf, poisoned>>
               \/ /\ ~IsPinned(buffer_pool[i]) /\ num_available = 0
                  /\ poisoned' = poisoned \cup {i, NumAvailableMutex}
                  /\ th_pc' = [th_pc EXCEPT ![th] = "panicked"]
                  /\ UNCHANGED <<mvars, txvars, stepvars, th_blk, th_idx, th_buf, th_held>>

\* try_to_pin returned None: the thread waits on the condition variable
\* (until notified or for the whole budget) and tries again
Wait(th) ==
    /\ th_pc[th] = "none"
    /\ IF NumAvailableMutex \in poisoned THEN ReturnErr(th)
       ELSE /\ th_pc' = [th_pc EXCEPT ![th] = "find"]
            /\ th_idx' = [th_idx EXCEPT ![th] = 1]
            /\ UNCHANGED <<mvars, txvars, stepvars, th_blk, th_buf, th_held, poisoned>>

\* try_to_pin returned None and the budget is spent: Err(BufferManagerError::Pin)
PinFail(th) ==
    /\ th_pc[th] = "none"
    /\ ReturnErr(th)

\* BufferManager::unpin of a handle the thread holds.  Buffer::unpin at
\* pins = 0 panics in a build with overflow checks and wraps in a build without.
UnpinCall(th, i) ==
    /\ th_pc[th] = "idle"
    /\ th_held[th][i] > 0
    /\ th_held' = [th_held EXCEPT ![th][i] = th_held[th][i] - 1]
    /\ IF i \in poisoned
       THEN UNCHANGED <<mvars, txvars, stepvars, th_pc, th_blk, th_idx, th_buf, poisoned>>
       ELSE \/ /\ IF buffer_pool[i].pins = 1 /\ NumAvailableMutex \in poisoned
                  THEN Install([St EXCEPT !.pool = [buffer_pool EXCEPT ![i].pins = 0]])
                  ELSE Install(BmUnpin(St, i))
               /\ UNCHANGED <<txvars, stepvars, th_pc, th_blk, th_idx, th_buf, poisoned>>
            \/ /\ buffer_pool[i].pins = 0
               /\ poisoned' = poisoned \cup {i}
               /\ th_pc' = [th_pc EXCEPT ![th] = "panicked"]
               /\ UNCHANGED <<mvars, txvars, stepvars, th_blk, th_idx, th_buf>>

NextBM ==
    \/ \E th \in Threads, blk \in Blocks : PinCall(th, blk)
    \/ \E th \in Threads : FindStep(th)
    \/ \E th \in Threads : ChooseStep(th)
    \/ \E th \in Threads : AssignStep(th)
    \/ \E th \in Threads : PinStep(th)
    \/ \E th \in Threads : Wait(th)
    \/ \E th \in Threads : PinFail(th)
    \/ \E th \in Threads, i \in Buffers : UnpinCall(th, i)

SpecBM == Init /\ [][NextBM]_vars

\* ------------- SpecPool: BufferManager::pin / unpin, one call after the other
\* th_pc records how the thread's last call ended
PinWhole(th, blk) ==
    /\ Held(th) < MaxHeld
    /\ LET r == BmPin(St, blk)
       IN /\ Install(r.m)
          /\ th_pc' = [th_pc EXCEPT ![th] = r.err]
          /\ th_buf' = [th_buf EXCEPT ![th] = r.buf]
          /\ th_held' = IF r.buf = NoBuf THEN th_held
                        ELSE [th_held EXCEPT ![th][r.buf] = th_held[th][r.buf] + 1]
    /\ th_blk' = [th_blk EXCEPT ![th] = blk]
    /\ UNCHANGED <<txvars, stepvars, th_idx, poisoned>>

UnpinWhole(th, i) ==
    /\ th_held[th][i] > 0
    /\ Install(BmUnpin(St, i))
    /\ th_held' = [th_held EXCEPT ![th][i] = th_held[th][i] - 1]
    /\ th_pc' = [th_pc EXCEPT ![th] = "Ok"]
    /\ UNCHANGED <<txvars, stepvars, th_blk, th_idx, th_buf, poisoned>>

NextPool ==
    \/ \E th \in Threads, blk \in Blocks : PinWhole(th, blk)
    \/ \E th \in Threads, i \in Buffers : UnpinWhole(th, i)

SpecPool == Init /\ [][NextPool]_vars

\* ------------- SpecLog: one thread appends records, opens a LogIterator,
\* ------------- reads some records, turns it into a LogReverseIterator
\* the k-th record appended: a short one or a long one, tagged with k
LogRecs(k) == {StartRec(k), SetIntRec(k, 0, 0, 0, 0)}

\* LogManager::append
LogAppend(rec) ==
    /\ lg_pc = "append"
    /\ Len(lg_appended) < MaxAppend
    /\ Install(LmAppend(St, rec))
    /\ lg_appended' = Append(lg_appended, rec)
    /\ UNCHANGED <<txvars, thvars, lavars, ltvars, eofvars, favars, highvars, lg_pc, lg_it, lg_rit, lg_fwd, lg_rev>>

\* LogManager::iterator
LogIterator ==
    /\ lg_pc = "append"
    /\ Install(LogIteratorNew(St).m)
    /\ lg_it' = LogIteratorNew(St).it
    /\ lg_pc' = "forward"
    /\ UNCHANGED <<txvars, thvars, lavars, ltvars, eofvars, favars, highvars, lg_appended, lg_rit, lg_fwd, lg_rev>>

\* LogIterator::next that returns a record
LogNext ==
    /\ lg_pc = "forward"
    /\ ~ItAtEnd(lg_it)
    /\ lg_fwd' = Append(lg_fwd, ItRec(disk_log, lg_it))
    /\ lg_it' = ItAdvance(disk_log, lg_it)
    /\ UNCHANGED <<mvars, txvars, thvars, lavars, ltvars, eofvars, favars, highvars, lg_pc, lg_appended, lg_rit, lg_rev>>

\* LogReverseIterator::new
LogReverse ==
    /\ lg_pc = "forward"
    /\ lg_rit' = RevIteratorNew(disk_log, lg_it)
    /\ lg_pc' = "reverse"
    /\ UNCHANGED <<mvars, txvars, thvars, lavars, ltvars, eofvars, favars, highvars, lg_appended, lg_it, lg_fwd, lg_rev>>

\* LogReverseIterator::next that returns a record
LogRevNext ==
    /\ lg_pc = "reverse"
    /\ ~RevAtEnd(lg_rit)
    /\ lg_rev' = Append(lg_rev, RevRec(lg_rit))
    /\ lg_rit' = RevAdvance(disk_log, lg_rit)
    /\ UNCHANGED <<mvars, txvars, thvars, lavars, ltvars, eofvars, favars, highvars, lg_pc, lg_appended, lg_it, lg_fwd>>

NextLog ==
    \/ \E rec \in LogRecs(Len(lg_appended) + 1) : LogAppend(rec)
    \/ LogIterator
    \/ LogNext
    \/ LogReverse
    \/ LogRevNext

SpecLog == Init /\ [][NextLog]_vars

\* ------------- SpecAppend: threads inside LogManager::append, one step per
\* ------------- critical section of the log_page mutex
\* the page after set_bytes(boundary - bytes_needed) and set_int(0, ..) by
\* a thread whose local boundary is the boundary of the page's first j
\* records: the record lands right below them, and the boundary word now
\* points at it, so the records the page held beyond the first j are no
\* longer part of it.  (The records of this specification have one length,
\* and a thread's boundary is that of a prefix of the page or of the empty
\* page.)
StoreAt(page, boundary, rec) ==
    LET S == {j \in 0..Len(page) : Boundary(SubSeq(page, 1, j)) = boundary}
    IN Append(SubSeq(page, 1, IF S = {} THEN 0 ELSE Min(S)), rec)

\* the mutex sections of the LogManager leave everything else as it is
LaFrame ==
    UNCHANGED <<buffer_pool, num_available, disk, file_len, locks, queues, park_token,
                cm_locks, bl_pins, bl_buffers, txvars, thvars, lgvars, ltvars, eofvars, favars, highvars>>

\* append is entered: the boundary is read under the log_page mutex
LaReadBoundary(th) ==
    /\ la_pc[th] = "idle"
    /\ la_calls < MaxCalls
    /\ la_calls' = la_calls + 1
    /\ la_rec' = [la_rec EXCEPT ![th] = SetIntRec(la_calls + 1, 0, 0, 0, 0)]
    /\ la_boundary' = [la_boundary EXCEPT ![th] = Boundary(log_page)]
    /\ la_pc' = [la_pc EXCEPT ![th] =
                    IF Boundary(log_page) < INTEGER_BYTE_LEN + RecLen(la_rec'[th]) + INTEGER_BYTE_LEN
                    THEN "flush" ELSE "write"]
    /\ UNCHANGED <<disk_log, log_page, current_block, latest_lsn, last_saved_lsn, la_ret>>
    /\ LaFrame

\* no room in the page: flush_all
LaFlushAll(th) ==
    /\ la_pc[th] = "flush"
    /\ disk_log' = LmFlushAll(St).dlog
    /\ last_saved_lsn' = LmFlushAll(St).saved
    /\ la_pc' = [la_pc EXCEPT ![th] = "newblock"]
    /\ UNCHANGED <<log_page, current_block, latest_lsn, la_rec, la_boundary, la_calls, la_ret>>
    /\ LaFrame

\* then, under the log_page and current_block mutexes, append_new_block;
\* the boundary is read from the page again
LaNewBlock(th) ==
    /\ la_pc[th] = "newblock"
    /\ disk_log' = AppendNewBlock(St).dlog
    /\ log_page' = AppendNewBlock(St).page
    /\ current_block' = AppendNewBlock(St).cur
    /\ la_boundary' = [la_boundary EXCEPT ![th] = Boundary(log_page')]
    /\ la_pc' = [la_pc EXCEPT ![th] = "write"]
    /\ UNCHANGED <<latest_lsn, last_saved_lsn, la_rec, la_calls, la_ret>>
    /\ LaFrame

\* the record is put in the page under the log_page mutex, latest_lsn goes
\* up by one under its own mutex, and append returns it
LaWrite(th) ==
    /\ la_pc[th] = "write"
    /\ log_page' = StoreAt(log_page, la_boundary[th], la_rec[th])
    /\ latest_lsn' = latest_lsn + 1
    /\ la_ret' = Append(la_ret, [lsn |-> latest_lsn + 1, rec |-> la_rec[th]])
    /\ la_pc' = [la_pc EXCEPT ![th] = "idle"]
    /\ UNCHANGED <<disk_log, current_block, last_saved_lsn, la_rec, la_boundary, la_calls>>
    /\ LaFrame

NextAppend ==
    \/ \E th \in Threads : LaReadBoundary(th)
    \/ \E th \in Threads : LaFlushAll(th)
    \/ \E th \in Threads : LaNewBlock(th)
    \/ \E th \in Threads : LaWrite(th)

SpecAppend == Init /\ [][NextAppend]_vars

\* ------------- SpecLT: threads inside LockTable::slock / xlock /
\* ------------- promote_to_xlock / unlock on one block, one step per
\* ------------- stretch of code under the same guards.  A thread calls
\* ------------- them as a ConcurrencyManager does: slock and xlock with no
\* ------------- lock of its own, promote_to_xlock with a shared lock,
\* ------------- unlock with a lock.
LtFrame == UNCHANGED <<mvars, txvars, thvars, lgvars, lavars, eofvars, favars, highvars>>

\* variant of the grant that lets promote_to_xlock through whatever the
\* number of shared holders
GrantedOverShared(op) ==
    CASE op = "slock" -> lt_lock # Exclusive
      [] op = "xlock" -> lt_lock = NoLock
      [] OTHER -> lt_lock >= 1

\* the lock is free for the call
Granted(op) ==
    CASE op = "slock" -> lt_lock # Exclusive
      [] op = "xlock" -> lt_lock = NoLock
      [] OTHER -> lt_lock = 1

\* the thread's guard of LockTable.locks is dropped
Dropped(th) == IF lt_shard = th THEN 0 ELSE lt_shard

\* a call is entered
LtCall(th, op) ==
    /\ lt_pc[th] = "idle"
    /\ CASE op \in {"slock", "xlock"} -> lt_holds[th] = "None" /\ Len(lt_queue) < MaxWaiting
         [] op = "promote" -> lt_holds[th] = "Shared" /\ Len(lt_queue) < MaxWaiting
         [] OTHER -> lt_holds[th] # "None"
    /\ lt_pc' = [lt_pc EXCEPT ![th] = "try"]
    /\ lt_op' = [lt_op EXCEPT ![th] = op]
    /\ lt_res' = [lt_res EXCEPT ![th] = "Running"]
    /\ lt_rounds' = [lt_rounds EXCEPT ![th] = 0]
    /\ UNCHANGED <<lt_lock, lt_present, lt_queue, lt_shard, lt_holds, lt_token, lt_stale, lt_orphan>>
    /\ LtFrame

\* self.locks.entry(blk): the thread gets the entry guard and looks at the
\* lock.  unlock lowers the count or removes the entry and drops the guard;
\* a lock call that is granted changes the lock and returns; one that is
\* not granted calls get_or_create_queue, the guard still held.
LtTry(th) ==
    /\ lt_pc[th] = "try"
    /\ lt_shard = 0
    /\ IF lt_op[th] = "unlock"
       THEN /\ lt_lock' = IF lt_lock > 1 THEN lt_lock - 1 ELSE NoLock
            /\ lt_holds' = [lt_holds EXCEPT ![th] = "None"]
            /\ lt_pc' = [lt_pc EXCEPT ![th] =
                            IF lt_lock > 1 \/ lt_lock = NoLock THEN "idle" ELSE "drain"]
            /\ lt_res' = [lt_res EXCEPT ![th] =
                             IF lt_lock = NoLock THEN "General"
                             ELSE IF lt_lock > 1 THEN "Ok" ELSE "Running"]
            /\ UNCHANGED <<lt_present, lt_queue, lt_shard, lt_stale>>
       ELSE IF Granted(lt_op[th])
       THEN /\ lt_lock' = IF lt_op[th] = "slock" THEN lt_lock + 1 ELSE Exclusive
            /\ lt_holds' = [lt_holds EXCEPT ![th] =
                               IF lt_op[th] = "slock" THEN "Shared" ELSE "Exclusive"]
            /\ lt_pc' = [lt_pc EXCEPT ![th] = "idle"]
            /\ lt_res' = [lt_res EXCEPT ![th] = "Ok"]
            /\ UNCHANGED <<lt_present, lt_queue, lt_shard, lt_stale>>
       ELSE IF lt_op[th] = "promote" /\ lt_lock = NoLock
       THEN /\ lt_pc' = [lt_pc EXCEPT ![th] = "idle"]
            /\ lt_res' = [lt_res EXCEPT ![th] = "General"]
            /\ UNCHANGED <<lt_lock, lt_holds, lt_present, lt_queue, lt_shard, lt_stale>>
       ELSE /\ lt_present' = TRUE
            /\ lt_stale' = [lt_stale EXCEPT ![th] = FALSE]
            /\ lt_shard' = th
            /\ lt_pc' = [lt_pc EXCEPT ![th] = "push"]
            /\ UNCHANGED <<lt_lock, lt_holds, lt_queue, lt_res>>
    /\ UNCHANGED <<lt_op, lt_token, lt_orphan, lt_rounds>>
    /\ LtFrame

\* queue.push_back(thread::current()) on the queue the thread got, then the
\* guards are dropped: all of them in slock and xlock; in promote_to_xlock
\* the OccupiedEntry of LockTable.locks lives to the end of the match arm,
\* past park_timeout
LtPush(th) ==
    /\ lt_pc[th] = "push"
    /\ IF lt_stale[th]
       THEN /\ lt_orphan' = [lt_orphan EXCEPT ![th] = TRUE]
            /\ UNCHANGED lt_queue
       ELSE /\ lt_queue' = Append(lt_queue, th)
            /\ UNCHANGED lt_orphan
    /\ lt_shard' = IF lt_op[th] = "promote" THEN th ELSE 0
    /\ lt_pc' = [lt_pc EXCEPT ![th] = "parked"]
    /\ UNCHANGED <<lt_lock, lt_present, lt_op, lt_holds, lt_token, lt_stale, lt_res, lt_rounds>>
    /\ LtFrame

\* park_timeout returns because of an unpark, within the budget: the loop
\* goes round (at most MaxRounds rounds fit in the budget)
LtWake(th) ==
    /\ lt_pc[th] = "parked"
    /\ lt_token[th]
    /\ lt_rounds[th] < MaxRounds
    /\ lt_rounds' = [lt_rounds EXCEPT ![th] = @ + 1]
    /\ lt_token' = [lt_token EXCEPT ![th] = FALSE]
    /\ lt_orphan' = [lt_orphan EXCEPT ![th] = FALSE]
    /\ lt_shard' = Dropped(th)
    /\ lt_pc' = [lt_pc EXCEPT ![th] = "try"]
    /\ UNCHANGED <<lt_lock, lt_present, lt_queue, lt_op, lt_holds, lt_stale, lt_res>>
    /\ LtFrame

\* park_timeout returns and the budget is spent: the loop ends and the
\* call returns LockTableError::Timeout (the thread stays in the queue); an
\* unpark that came in the meantime is used up
LtTimeout(th) ==
    /\ lt_pc[th] = "parked"
    /\ lt_token' = [lt_token EXCEPT ![th] = FALSE]
    /\ lt_orphan' = [lt_orphan EXCEPT ![th] = FALSE]
    /\ lt_shard' = Dropped(th)
    /\ lt_pc' = [lt_pc EXCEPT ![th] = "idle"]
    /\ lt_res' = [lt_res EXCEPT ![th] = "Timeout"]
    /\ UNCHANGED <<lt_lock, lt_present, lt_queue, lt_op, lt_holds, lt_stale, lt_rounds>>
    /\ LtFrame

\* the second half of an unlock that removed the entry: self.queues.entry(blk);
\* an entry that is there is drained, its threads unparked, and removed
LtDrain(th) ==
    /\ lt_pc[th] = "drain"
    /\ lt_token' = [u \in Lockers |->
                       lt_token[u] \/ (lt_present /\ \E k \in 1..Len(lt_queue) : lt_queue[k] = u)]
    /\ lt_queue' = <<>>
    /\ lt_present' = FALSE
    /\ lt_stale' = [u \in Lockers |-> lt_stale[u] \/ (lt_present /\ lt_pc[u] = "push")]
    /\ lt_pc' = [lt_pc EXCEPT ![th] = "idle"]
    /\ lt_res' = [lt_res EXCEPT ![th] = "Ok"]
    /\ UNCHANGED <<lt_lock, lt_shard, lt_op, lt_holds, lt_orphan, lt_rounds>>
    /\ LtFrame

NextLT ==
    \/ \E th \in Lockers, op \in {"slock", "xlock", "promote", "unlock"} : LtCall(th, op)
    \/ \E th \in Lockers : LtTry(th)
    \/ \E th \in Lockers : LtPush(th)
    \/ \E th \in Lockers : LtWake(th)
    \/ \E th \in Lockers : LtTimeout(th)
    \/ \E th \in Lockers : LtDrain(th)

SpecLT == Init /\ [][NextLT]_vars

\* a thread that waits for the entry guard of LockTable.locks gets it, a
\* thread that runs takes its next step, and park_timeout returns
LtFair(th) ==
    /\ SF_vars(LtTry(th))
    /\ WF_vars(LtPush(th))
    /\ WF_vars(LtWake(th) \/ LtTimeout(th))
    /\ WF_vars(LtDrain(th))

\* the calls of the first NumUpgraders threads
Upgraders == 1..NumUpgraders

NextLTFew ==
    \/ \E th \in Upgraders, op \in {"slock", "xlock", "promote", "unlock"} : LtCall(th, op)
    \/ \E th \in Upgraders : LtTry(th)
    \/ \E th \in Upgraders : LtPush(th)
    \/ \E th \in Upgraders : LtWake(th)
    \/ \E th \in Upgraders : LtTimeout(th)
    \/ \E th \in Upgraders : LtDrain(th)

SpecLTFair == Init /\ [][NextLTFew]_vars /\ \A th \in Upgraders : LtFair(th)

\* ------------- SpecEof: concurrent transactions on a new data file: size,
\* ------------- append, and writes through the buffer pool
\* Transaction::size
Size(t) ==
    /\ Running(t)
    /\ LET r == TxSize(St, t)
       IN /\ QueuesWithinBound(r.m)
          /\ Install(r.m)
          /\ eof_seen' = IF r.err = "Ok"
                         THEN [eof_seen EXCEPT ![t] = [n |-> tx_num[t], len |-> r.val]]
                         ELSE eof_seen
    /\ UNCHANGED <<txvars, thvars, lgvars, lavars, ltvars, favars, highvars>>

\* Transaction::append
AppendBlock(t) ==
    /\ Running(t)
    /\ file_len <= MaxBlock
    /\ LET r == TxAppend(St, t)
       IN /\ QueuesWithinBound(r.m)
          /\ Install(r.m)
          /\ eof_seen' = IF r.err = "Ok"
                         THEN [eof_seen EXCEPT ![t] = [n |-> tx_num[t], len |-> r.val + 1]]
                         ELSE eof_seen
    /\ UNCHANGED <<txvars, thvars, lgvars, lavars, ltvars, favars, highvars>>

NextEof ==
    \/ \E t \in Txs : Room(MaxLogEof) /\ Create(t)
    \/ \E t \in Txs, b \in Blocks : Pin(t, b)
    \/ \E t \in Txs, b \in Blocks : Unpin(t, b)
    \/ \E t \in Txs, b \in Blocks, o \in Offsets, v \in Values : SetInt(t, b, o, v, FALSE)
    \/ \E t \in Txs : Size(t)
    \/ \E t \in Txs : AppendBlock(t)
    \/ \E t \in Txs : Room(MaxLogEof) /\ Commit(t)

SpecEof == InitEmpty /\ [][NextEof]_vars

\* ------------- SpecFile: threads inside FileManager::append on a new file,
\* ------------- one step per critical section of the open_files mutex, and
\* ------------- FileManager::write on the blocks the file has
FaFrame ==
    UNCHANGED <<buffer_pool, num_available, disk_log, log_page, current_block,
                latest_lsn, last_saved_lsn, locks, queues, park_token,
                cm_locks, bl_pins, bl_buffers, txvars, thvars, lgvars, lavars,
                ltvars, eofvars, highvars>>

\* append is entered: self.length(filename)
FaLength(th) ==
    /\ fa_pc[th] = "idle"
    /\ file_len <= MaxBlock
    /\ fa_blknum' = [fa_blknum EXCEPT ![th] = file_len]
    /\ fa_pc' = [fa_pc EXCEPT ![th] = "write"]
    /\ UNCHANGED <<disk, file_len, fa_ret>>
    /\ FaFrame

\* open_files is locked again: seek to blknum * blocksize, write a block
\* of zeros, return the block
FaWrite(th) ==
    /\ fa_pc[th] = "write"
    /\ disk' = [disk EXCEPT ![fa_blknum[th]] = [o \in Offsets |-> 0]]
    /\ file_len' = IF fa_blknum[th] < file_len THEN file_len ELSE fa_blknum[th] + 1
    /\ fa_ret' = Append(fa_ret, fa_blknum[th])
    /\ fa_pc' = [fa_pc EXCEPT ![th] = "idle"]
    /\ UNCHANGED fa_blknum
    /\ FaFrame

\* FileManager::write of a page to a block of the file
FaWritePage(th, blk, v) ==
    /\ fa_pc[th] = "idle"
    /\ blk < file_len
    /\ disk' = [disk EXCEPT ![blk] = [o \in Offsets |-> v]]
    /\ UNCHANGED <<file_len, fa_pc, fa_blknum, fa_ret>>
    /\ FaFrame

NextFile ==
    \/ \E th \in Appenders : FaLength(th)
    \/ \E th \in Appenders : FaWrite(th)
    \/ \E th \in Appenders, blk \in Blocks, v \in Values : FaWritePage(th, blk, v)

SpecFile == InitEmpty /\ [][NextFile]_vars

\* ------------- SpecEnd: concurrent transactions that end by commit or rollback
RECURSIVE PinsFrom(_, _)
\* the length of BufferList.pins of the handle t, counted from block b on
PinsFrom(t, b) == IF b > MaxBlock THEN 0 ELSE bl_pins[t][b] + PinsFrom(t, b + 1)

\* the number of entries of ConcurrencyManager.locks of the handle t
LocksOf(t) == Cardinality({b \in LockKeys : cm_locks[t][b] # "None"})

\* what commit / rollback finds when it is called
HeldAt(t, call) == [pins |-> PinsFrom(t, 0), locks |-> LocksOf(t), call |-> call]

\* Transaction::commit
CommitEnd(t) ==
    /\ Running(t)
    /\ LET r == TxCommit(St, t, tx_num[t])
       IN /\ Install(r.m)
          /\ tx_status' = [tx_status EXCEPT ![t] = IF r.err = "Ok" THEN "none" ELSE "active"]
          /\ tx_before' = IF r.err = "Ok" THEN [tx_before EXCEPT ![t] = NotWritten] ELSE tx_before
          /\ end_held' = IF r.err = "Ok" THEN [end_held EXCEPT ![t] = HeldAt(t, "commit")]
                         ELSE end_held
    /\ UNCHANGED <<next_txnum, needs_recover, tx_num, thvars, lowvars, after_end>>

\* Transaction::rollback
RollbackEnd(t) ==
    /\ Running(t)
    /\ LET r == TxRollback(St, t, tx_num[t])
       IN /\ QueuesWithinBound(r.m)
          /\ Install(r.m)
          /\ tx_status' = [tx_status EXCEPT ![t] = IF r.err = "Ok" THEN "none" ELSE "active"]
          /\ tx_before' = IF r.err = "Ok" THEN [tx_before EXCEPT ![t] = NotWritten] ELSE tx_before
          /\ end_held' = IF r.err = "Ok" THEN [end_held EXCEPT ![t] = HeldAt(t, "rollback")]
                         ELSE end_held
    /\ UNCHANGED <<next_txnum, needs_recover, tx_num, thvars, lowvars, after_end>>

NextEnd ==
    \/ \E t \in Txs : Room(MaxLogEnd) /\ Create(t)
    \/ \E t \in Txs, b \in Blocks : Pin(t, b)
    \/ \E t \in Txs, b \in Blocks : Unpin(t, b)
    \/ \E t \in Txs, b \in Blocks, o \in Offsets : GetInt(t, b, o)
    \/ \E t \in Txs, b \in Blocks, o \in Offsets, v \in Values : Room(MaxLogEnd) /\ SetInt(t, b, o, v, TRUE)
    \/ \E t \in Txs : Room(MaxLogEnd) /\ CommitEnd(t)
    \/ \E t \in Txs : Room(MaxLogEnd) /\ RollbackEnd(t)

SpecEnd == Init /\ [][NextEnd]_vars

\* ------------- SpecPins: the pin lists of the transactions, pin and unpin
\* BufferList::pin
ListPin(t, blk) ==
    /\ bp_out[t][blk] < MaxListPins
    /\ LET r == BlPin(St, t, blk)
       IN /\ Install(r.m)
          /\ bp_out' = IF r.err = "Ok" THEN [bp_out EXCEPT ![t][blk] = bp_out[t][blk] + 1]
                       ELSE bp_out
    /\ UNCHANGED <<bp_last, txvars, thvars, lowvars, endvars, after_pin>>

\* BufferList::unpin
ListUnpin(t, blk) ==
    /\ LET r == BlUnpin(St, t, blk)
       IN /\ Install(r.m)
          /\ bp_out' = IF r.err = "Ok" THEN [bp_out EXCEPT ![t][blk] = bp_out[t][blk] - 1]
                       ELSE bp_out
          /\ bp_last' = [t |-> t, blk |-> blk, out |-> bp_out[t][blk], err |-> r.err,
                         changed |-> r.m.pool # buffer_pool \/ r.m.avail # num_available
                                     \/ r.m.pins # bl_pins]
    /\ UNCHANGED <<txvars, thvars, lowvars, endvars, after_pin>>

\* BufferList::unpin_all
ListUnpinAll(t) ==
    /\ Install(BlUnpinAll(St, t))
    /\ bp_out' = [bp_out EXCEPT ![t] = [b \in Blocks |-> 0]]
    /\ UNCHANGED <<bp_last, txvars, thvars, lowvars, endvars, after_pin>>

NextPins ==
    \/ \E t \in Txs, b \in Blocks : ListPin(t, b)
    \/ \E t \in Txs, b \in Blocks : ListUnpin(t, b)
    \/ \E t \in Txs : ListUnpinAll(t)

SpecPins == Init /\ [][NextPins]_vars

\* ------------- SpecCreate: threads inside TransactionFactory::create and
\* ------------- inside the commit of the transaction they created (its
\* ------------- log_commit), one step per mutex critical section
CrFrame ==
    UNCHANGED <<buffer_pool, num_available, disk, file_len, locks, queues, park_token,
                cm_locks, bl_pins, bl_buffers, needs_recover, tx_status, tx_num, tx_before,
                thvars, lowvars, endvars, pinvars, after_cr>>

\* create is entered: next_txnum is locked and incremented; the guard is
\* held until create returns
CrLock(th) ==
    /\ cr_th[th].pc = "idle" /\ cr_th[th].tx = 0
    /\ cr_mutex = 0
    /\ next_txnum < MaxCreate
    /\ cr_mutex' = th
    /\ next_txnum' = next_txnum + 1
    /\ cr_th' = [cr_th EXCEPT ![th].pc = "boundary", ![th].call = "create",
                              ![th].rec = StartRec(next_txnum + 1)]
    /\ UNCHANGED <<disk_log, log_page, current_block, latest_lsn, last_saved_lsn, cr_made>>
    /\ CrFrame

\* the thread ends its transaction: Transaction::commit calls log_commit
CrCommit(th) ==
    /\ cr_th[th].pc = "idle" /\ cr_th[th].tx # 0
    /\ cr_th' = [cr_th EXCEPT ![th].pc = "boundary", ![th].call = "commit",
                              ![th].rec = CommitRec(cr_th[th].tx)]
    /\ UNCHANGED <<disk_log, log_page, current_block, latest_lsn, last_saved_lsn,
                   next_txnum, cr_mutex, cr_made>>
    /\ CrFrame

\* LogManager::append is entered: the boundary is read under the log_page mutex
CrReadBoundary(th) ==
    /\ cr_th[th].pc = "boundary"
    /\ cr_th' = [cr_th EXCEPT
                   ![th].boundary = Boundary(log_page),
                   ![th].pc = IF Boundary(log_page) < INTEGER_BYTE_LEN + RecLen(cr_th[th].rec)
                                                      + INTEGER_BYTE_LEN
                              THEN "flush" ELSE "write"]
    /\ UNCHANGED <<disk_log, log_page, current_block, latest_lsn, last_saved_lsn,
                   next_txnum, cr_mutex, cr_made>>
    /\ CrFrame

\* no room in the page: flush_all
CrFlushAll(th) ==
    /\ cr_th[th].pc = "flush"
    /\ disk_log' = LmFlushAll(St).dlog
    /\ last_saved_lsn' = LmFlushAll(St).saved
    /\ cr_th' = [cr_th EXCEPT ![th].pc = "newblock"]
    /\ UNCHANGED <<log_page, current_block, latest_lsn, next_txnum, cr_mutex, cr_made>>
    /\ CrFrame

\* then append_new_block; the boundary is read from the page again
CrNewBlock(th) ==
    /\ cr_th[th].pc = "newblock"
    /\ disk_log' = AppendNewBlock(St).dlog
    /\ log_page' = AppendNewBlock(St).page
    /\ current_block' = AppendNewBlock(St).cur
    /\ cr_th' = [cr_th EXCEPT ![th].pc = "write", ![th].boundary = Boundary(log_page')]
    /\ UNCHANGED <<latest_lsn, last_saved_lsn, next_txnum, cr_mutex, cr_made>>
    /\ CrFrame

\* the record is put in the page and latest_lsn goes up by one.  For
\* create this is the end of log_start: the Transaction is returned and
\* the guard of next_txnum is dropped.  log_commit goes on to flush.
CrWrite(th) ==
    /\ cr_th[th].pc = "write"
    /\ log_page' = StoreAt(log_page, cr_th[th].boundary, cr_th[th].rec)
    /\ latest_lsn' = latest_lsn + 1
    /\ IF cr_th[th].call = "create"
       THEN /\ cr_th' = [cr_th EXCEPT ![th].pc = "idle", ![th].tx = cr_th[th].rec.tx]
            /\ cr_mutex' = 0
            /\ cr_made' = Append(cr_made, cr_th[th].rec.tx)
       ELSE /\ cr_th' = [cr_th EXCEPT ![th].pc = "saved", ![th].lsn = latest_lsn + 1]
            /\ UNCHANGED <<cr_mutex, cr_made>>
    /\ UNCHANGED <<disk_log, current_block, last_saved_lsn, next_txnum>>
    /\ CrFrame

\* log_commit: flush(lsn); the transaction is over
CrFlush(th) ==
    /\ cr_th[th].pc = "saved"
    /\ disk_log' = LmFlush(St, cr_th[th].lsn).dlog
    /\ last_saved_lsn' = LmFlush(St, cr_th[th].lsn).saved
    /\ cr_th' = [cr_th EXCEPT ![th].pc = "idle", ![th].tx = 0]
    /\ UNCHANGED <<log_page, current_block, latest_lsn, next_txnum, cr_mutex, cr_made>>
    /\ CrFrame

NextCreate ==
    \/ \E th \in Threads : CrLock(th)
    \/ \E th \in Threads : CrCommit(th)
    \/ \E th \in Threads : CrReadBoundary(th)
    \/ \E th \in Threads : CrFlushAll(th)
    \/ \E th \in Threads : CrNewBlock(th)
    \/ \E th \in Threads : CrWrite(th)
    \/ \E th \in Threads : CrFlush(th)

SpecCreate == Init /\ [][NextCreate]_vars

\* ------------- SpecScan: one TableScan on a table with one integer field,
\* ------------- used by one transaction that meets no lock or pin failure
TsFrame == UNCHANGED <<mvars, txvars, thvars, lowvars, endvars, pinvars, crvars, after_ts>>

\* TableScanImpl::before_first
TsBeforeFirst ==
    /\ ts_block' = 0
    /\ ts_slot' = None
    /\ ts_scan' = "on"
    /\ ts_visited' = <<>>
    /\ UNCHANGED <<ts_file, ts_expect>>
    /\ TsFrame

\* TableScanImpl::move_next, and get_int("A") when it returns true
TsMoveNext ==
    /\ ts_scan # "done"
    /\ LET r == MoveNext(ts_file, ts_block, ts_slot)
       IN /\ ts_block' = r.block
          /\ ts_slot' = r.slot
          /\ ts_scan' = IF ts_scan = "on" /\ ~r.found THEN "done" ELSE ts_scan
          /\ ts_visited' = IF ts_scan = "on" /\ r.found
                           THEN Append(ts_visited, [rid |-> <<r.block, r.slot>>,
                                                    val |-> ts_file[r.block + 1][FieldPos(r.slot)]])
                           ELSE ts_visited
    /\ UNCHANGED <<ts_file, ts_expect>>
    /\ TsFrame

\* TableScanImpl::insert
TsInsert ==
    /\ LET r == Insert(ts_file, ts_block, ts_slot)
       IN /\ Len(r.file) <= MaxTableBlocks
          /\ ts_file' = r.file
          /\ ts_block' = r.block
          /\ ts_slot' = r.slot
          /\ ts_expect' = [ts_expect EXCEPT ![<<r.block, r.slot>>] =
                              [live |-> TRUE, set |-> FALSE, val |-> 0]]
    /\ ts_scan' = "off"
    /\ UNCHANGED ts_visited
    /\ TsFrame

\* RecordPage::insert_after on the current block, by a caller that keeps
\* the slot it returns
TsInsertAfter ==
    /\ LET r == InsertAfter(ts_file[ts_block + 1], ts_slot)
       IN /\ ts_file' = [ts_file EXCEPT ![ts_block + 1] = r.page]
          /\ ts_slot' = r.slot
          /\ ts_expect' = IF r.slot = None THEN ts_expect
                          ELSE [ts_expect EXCEPT ![<<ts_block, r.slot>>] =
                                   [live |-> TRUE, set |-> FALSE, val |-> 0]]
    /\ ts_scan' = "off"
    /\ UNCHANGED <<ts_block, ts_visited>>
    /\ TsFrame

\* TableScanImpl::set_int("A", val); InvalidCall when there is no current slot
TsSetInt(val) ==
    /\ IF ts_slot = None THEN UNCHANGED <<ts_file, ts_expect>>
       ELSE /\ ts_file' = [ts_file EXCEPT ![ts_block + 1][FieldPos(ts_slot)] = val]
            /\ ts_expect' = IF ts_expect[<<ts_block, ts_slot>>].live
                            THEN [ts_expect EXCEPT ![<<ts_block, ts_slot>>] =
                                     [live |-> TRUE, set |-> TRUE, val |-> val]]
                            ELSE ts_expect
    /\ ts_scan' = "off"
    /\ UNCHANGED <<ts_block, ts_slot, ts_visited>>
    /\ TsFrame

\* TableScanImpl::delete; InvalidCall when there is no current slot
TsDelete ==
    /\ IF ts_slot = None THEN UNCHANGED <<ts_file, ts_expect>>
       ELSE /\ ts_file' = [ts_file EXCEPT ![ts_block + 1][RootOffset(ts_slot)] = Empty]
            /\ ts_expect' = [ts_expect EXCEPT ![<<ts_block, ts_slot>>] = NoRecord]
    /\ ts_scan' = "off"
    /\ UNCHANGED <<ts_block, ts_slot, ts_visited>>
    /\ TsFrame

NextScan ==
    \/ TsBeforeFirst
    \/ TsMoveNext
    \/ TsInsert
    \/ TsInsertAfter
    \/ \E v \in Values : TsSetInt(v)
    \/ TsDelete

SpecScan == Init /\ [][NextScan]_vars

\* ------------- SpecProduct: one ProductScan over two scans of 0..MaxRows records
PsFrame == UNCHANGED <<mvars, txvars, thvars, lowvars, endvars, pinvars, crvars, tsvars, after_ps>>

\* ProductScan::new
PsNew(n1, n2) ==
    /\ ps_s1' = [n |-> n1, pos |-> 0]
    /\ ps_s2' = [n |-> n2, pos |-> 0]
    /\ ps_state' = "new"
    /\ ps_out' = <<>>
    /\ PsFrame

\* ProductScan::before_first
PsBeforeFirst ==
    /\ ps_state # "none"
    /\ ps_s1' = ProductBeforeFirst(ps_s1, ps_s2).s1
    /\ ps_s2' = ProductBeforeFirst(ps_s1, ps_s2).s2
    /\ ps_state' = "on"
    /\ ps_out' = <<>>
    /\ PsFrame

\* ProductScan::move_next
PsMoveNext ==
    /\ ps_state = "on"
    /\ ps_s1' = ProductMoveNext(ps_s1, ps_s2).s1
    /\ ps_s2' = ProductMoveNext(ps_s1, ps_s2).s2
    /\ ps_state' = IF ProductMoveNext(ps_s1, ps_s2).found THEN "on" ELSE "done"
    /\ ps_out' = IF ProductMoveNext(ps_s1, ps_s2).found
                 THEN Append(ps_out, <<ps_s1'.pos, ps_s2'.pos>>)
                 ELSE ps_out
    /\ PsFrame

NextProduct ==
    \/ \E n1 \in 0..MaxRows, n2 \in 0..MaxRows : PsNew(n1, n2)
    \/ PsBeforeFirst
    \/ PsMoveNext

SpecProduct == Init /\ [][NextProduct]_vars

\* ------------- SpecQuery: exec_query("select F from T1, T2 where P") and
\* ------------- the use of the scan it returns
QsFrame == UNCHANGED <<mvars, txvars, thvars, lowvars, endvars, pinvars, crvars, tsvars, psvars, after_qs>>

\* the tables, with up to MaxTableRows records
Tables == UNION {[1..n -> Values] : n \in 0..MaxTableRows}

\* the predicates: conjunctions of the terms a = b and a = 1
Terms == {[lhs |-> "a", kind |-> "field", rhs |-> "b", val |-> 0],
          [lhs |-> "a", kind |-> "const", rhs |-> "", val |-> 1]}

\* Executor::exec_query: BasicQueryPalanner::create_plan builds
\* ProjectPlan(SelectPlan(ProductPlan(TablePlan T1, TablePlan T2), P), F)
\* and open_read_scan opens the scans
QsExecQuery(t1, t2, pred, fields) ==
    /\ qs_t1' = t1
    /\ qs_t2' = t2
    /\ qs_pred' = pred
    /\ qs_fields' = fields
    /\ qs_s1' = [n |-> Len(t1), pos |-> 0]
    /\ qs_s2' = [n |-> Len(t2), pos |-> 0]
    /\ qs_state' = "new"
    /\ qs_out' = <<>>
    /\ QsFrame

\* before_first of the scan: ProjectScan, SelectScan, ProductScan
QsBeforeFirst ==
    /\ qs_state # "none"
    /\ qs_s1' = ProductBeforeFirst(qs_s1, qs_s2).s1
    /\ qs_s2' = ProductBeforeFirst(qs_s1, qs_s2).s2
    /\ qs_state' = "on"
    /\ qs_out' = <<>>
    /\ UNCHANGED <<qs_t1, qs_t2, qs_pred, qs_fields>>
    /\ QsFrame

\* move_next of the scan, and get_val of every field of F when it returns true
QsMoveNext ==
    /\ qs_state = "on"
    /\ LET r == SelectMoveNext(qs_s1, qs_s2, qs_pred, qs_t1, qs_t2)
       IN /\ qs_s1' = r.s1
          /\ qs_s2' = r.s2
          /\ qs_state' = CASE r.res = "true" -> "on"
                           [] r.res = "false" -> "done"
                           [] OTHER -> "error"
          /\ qs_out' = IF r.res = "true"
                       THEN Append(qs_out, ProjectRow(qs_fields, qs_t1, qs_t2, r.s1, r.s2))
                       ELSE qs_out
    /\ UNCHANGED <<qs_t1, qs_t2, qs_pred, qs_fields>>
    /\ QsFrame

NextQuery ==
    \/ \E t1 \in Tables, t2 \in Tables, pred \in SUBSET Terms, fields \in (SUBSET {"a", "b"}) \ {{}} :
          QsExecQuery(t1, t2, pred, fields)
    \/ QsBeforeFirst
    \/ QsMoveNext

SpecQuery == Init /\ [][NextQuery]_vars

\* ------------- SpecFormat: RecordPage::format and the log of the transaction
FmFrame == UNCHANGED <<mvars, txvars, thvars, lowvars, endvars, pinvars, crvars, tsvars, psvars, qsvars, after_fm>>

\* Transaction::set_int on the block of the record page
FmSetInt(offset, val, is_ok_to_log) ==
    /\ Len(fm_log) < MaxFormatLog
    /\ fm_page' = [fm_page EXCEPT ![offset] = val]
    /\ fm_log' = fm_log \o TxSetIntLog(fm_page, offset, val, is_ok_to_log)
    /\ FmFrame

\* RecordPage::format
FmFormat ==
    /\ Len(fm_log) < MaxFormatLog
    /\ fm_page' = Format(fm_page)
    /\ fm_log' = fm_log \o FormatLog(fm_page)
    /\ FmFrame

NextFormat ==
    \/ \E offset \in Words, val \in Values, is_ok_to_log \in BOOLEAN :
          FmSetInt(offset, val, is_ok_to_log)
    \/ FmFormat

SpecFormat == Init /\ [][NextFormat]_vars

\* ------------- SpecStat: StatManagerImpl over two tables
SmFrame == UNCHANGED <<mvars, txvars, thvars, lowvars, endvars, pinvars, crvars, tsvars, psvars, qsvars, fmvars, after_sm>>

\* TableManager::create_table: the table is listed in tblcat
SmCreateTable(table_name) ==
    /\ table_name \notin sm_tblcat
    /\ sm_tblcat' = sm_tblcat \cup {table_name}
    /\ UNCHANGED <<sm_rows, num_calls, field_stats, sm_served, sm_rebuilds, sm_last>>
    /\ SmFrame

\* a record is inserted into the table
SmInsert(table_name) ==
    /\ table_name \in sm_tblcat
    /\ sm_rows[table_name] < MaxStatRows
    /\ sm_rows' = [sm_rows EXCEPT ![table_name] = @ + 1]
    /\ UNCHANGED <<sm_tblcat, num_calls, field_stats, sm_served, sm_rebuilds, sm_last>>
    /\ SmFrame

\* StatManagerImpl::new, as MetadataManagerImpl::get_table_stat calls it
SmNew ==
    /\ sm_served > 0
    /\ num_calls' = 0
    /\ field_stats' = NoStats
    /\ sm_served' = 0
    /\ sm_last' = SmNoCall
    /\ UNCHANGED <<sm_tblcat, sm_rows, sm_rebuilds>>
    /\ SmFrame

\* StatManagerImpl::get_field_stat
SmGetFieldStat(table_name) ==
    /\ sm_rebuilds < MaxRebuilds
    /\ LET refresh == NeedsRefresh(num_calls + 1)
           fs == IF refresh THEN RefreshStatistics(sm_tblcat, sm_rows) ELSE field_stats
           r == LookupStat(fs, sm_tblcat, sm_rows, table_name)
       IN /\ num_calls' = IF refresh THEN 0 ELSE num_calls + 1
          /\ field_stats' = r.fs
          /\ sm_served' = sm_served + 1
          /\ sm_rebuilds' = IF refresh THEN sm_rebuilds + 1 ELSE sm_rebuilds
          /\ sm_last' = [nth |-> sm_served + 1, table |-> table_name, before |-> field_stats,
                         tblcat |-> sm_tblcat, rows |-> sm_rows, refreshed |-> refresh,
                         scanned |-> (IF refresh THEN sm_tblcat ELSE {}) \cup r.scanned,
                         ret |-> r.ret]
    /\ UNCHANGED <<sm_tblcat, sm_rows>>
    /\ SmFrame

NextStat ==
    \/ \E table_name \in StatTables : SmCreateTable(table_name)
    \/ \E table_name \in StatTables : SmInsert(table_name)
    \/ SmNew
    \/ \E table_name \in StatTables : SmGetFieldStat(table_name)

SpecStat == Init /\ [][NextStat]_vars

\* ------------- SpecPage: the set calls of a Page of PageSize bytes
PgFrame == UNCHANGED <<mvars, txvars, thvars, lowvars, endvars, pinvars, crvars, tsvars, psvars, qsvars, fmvars, smvars, after_pg>>

\* the integers, byte strings and strings the calls are made with
PageInts == {0, 1, -1, 258, 2147483647, -2147483647 - 1}
PageBytes == UNION {[1..n -> {0, 1, 255}] : n \in 0..MaxBytesLen}
PageStrings == UNION {[1..n -> {97, 233, 12354}] : n \in 0..MaxStrLen}

\* Page::set_int; an offset out of range panics
PgSetInt(offset, n) ==
    /\ pg_ops < MaxPageOps
    /\ offset + INTEGER_BYTE_LEN <= PageSize
    /\ pg_bb' = PageSetInt(pg_bb, offset, n)
    /\ pg_ops' = pg_ops + 1
    /\ pg_last' = [kind |-> "int", offset |-> offset, n |-> n, b |-> <<>>, s |-> <<>>,
                   before |-> pg_bb]
    /\ PgFrame

\* Page::set_bytes
PgSetBytes(offset, b) ==
    /\ pg_ops < MaxPageOps
    /\ offset + INTEGER_BYTE_LEN + Len(b) <= PageSize
    /\ pg_bb' = PageSetBytes(pg_bb, offset, b)
    /\ pg_ops' = pg_ops + 1
    /\ pg_last' = [kind |-> "bytes", offset |-> offset, n |-> 0, b |-> b, s |-> <<>>,
                   before |-> pg_bb]
    /\ PgFrame

\* Page::set_string
PgSetString(offset, s) ==
    /\ pg_ops < MaxPageOps
    /\ offset + INTEGER_BYTE_LEN + Len(AsBytes(s)) <= PageSize
    /\ pg_bb' = PageSetString(pg_bb, offset, s)
    /\ pg_ops' = pg_ops + 1
    /\ pg_last' = [kind |-> "string", offset |-> offset, n |-> 0, b |-> <<>>, s |-> s,
                   before |-> pg_bb]
    /\ PgFrame

NextPage ==
    \/ \E offset \in 0..(PageSize - 1), n \in PageInts : PgSetInt(offset, n)
    \/ \E offset \in 0..(PageSize - 1), b \in PageBytes : PgSetBytes(offset, b)
    \/ \E offset \in 0..(PageSize - 1), s \in PageStrings : PgSetString(offset, s)

SpecPage == Init /\ [][NextPage]_vars

\* ------------- SpecParse: parse_query of a text, then parse_query of the
\* ------------- text the QueryData it returned displays as
PrFrame == UNCHANGED <<mvars, txvars, thvars, lowvars, endvars, pinvars, crvars, tsvars, psvars, qsvars, fmvars, smvars, pgvars, after_pr>>

\* the texts parsed: select <ids> from <ids> [where <term> [and <term>]] <rest>
PrNames == {<<"a">>, <<"_", "b">>, <<"a", "_", "b">>}
PrFieldLists == PrNames \cup {x \o sep \o y : x \in PrNames, y \in PrNames,
                              sep \in {<<",", " ">>, <<",">>}}
PrTableLists == {<<"t">>, <<"t", ",", "c", "1">>, <<"a", "n", "d">>}
PrExpressions == {<<"a">>, <<"3">>, <<"0", "0", "7">>, <<"-", "5">>, <<"'", "x", " ", "y", "'">>, <<"'", "'">>, <<"'", "z">>, <<"2", "1", "4", "7", "4", "8", "3", "6", "4", "8">>}
PrTerms == {lhs \o eq \o rhs : lhs \in {<<"a">>, <<"3">>}, rhs \in PrExpressions,
            eq \in {<<" ", "=", " ">>, <<"=">>}}
PrMoreTerms == {<<"b", " ", "=", " ", "'", "x", " ", "y", "'">>, <<"c", "1", " ", "=", " ", "1", "2">>}
PrPredicates ==
    {<<>>} \cup {<<" ", "w", "h", "e", "r", "e", " ">> \o t : t \in PrTerms}
    \cup (IF MaxTerms >= 2
          THEN {<<" ", "w", "h", "e", "r", "e", " ">> \o t \o <<" ", "a", "n", "d", " ">> \o u : t \in PrTerms, u \in PrMoreTerms}
          ELSE {})
PrRests == {<<>>, <<" ", "-">>, <<";", "x">>}

\* ParserImpl::new(input) and parse_query()
PrParse(input) ==
    /\ pr_state = "none"
    /\ pr_input' = input
    /\ pr_q' = ParseQuery(input)
    /\ pr_q2' = NoQuery
    /\ pr_state' = "parsed"
    /\ PrFrame

\* ParserImpl::new(q.to_string()) and parse_query(), q the QueryData parsed
PrReparse ==
    /\ pr_state = "parsed"
    /\ pr_q.ok
    /\ pr_q2' = ParseQuery(QueryToString(pr_q))
    /\ pr_state' = "reparsed"
    /\ UNCHANGED <<pr_input, pr_q>>
    /\ PrFrame

NextParse ==
    \/ \E fields \in PrFieldLists, tables \in PrTableLists, predicate \in PrPredicates,
          rest \in PrRests :
          PrParse(<<"s", "e", "l", "e", "c", "t", " ">> \o fields \o <<" ", "f", "r", "o", "m", " ">> \o tables \o predicate \o rest)
    \/ PrReparse

SpecParse == Init /\ [][NextParse]_vars

\* ------------- SpecCM: slock, xlock and release of the ConcurrencyManagers
\* ------------- of the transactions, over one lock table
CcFrame == UNCHANGED <<txvars, thvars, lowvars, endvars, pinvars, crvars, tsvars, psvars, qsvars, fmvars, smvars, pgvars, prvars, after_cc>>

\* the call changed the lock table or waited in it
LockTableCalled(m) ==
    m.locks # locks \/ m.queues # queues \/ m.token # park_token

\* the record of a call: its result, the maps it found
CcRecord(op, t, blk, r) ==
    [op |-> op, t |-> t, blk |-> blk, err |-> r.err, cm |-> cm_locks, locks |-> locks,
     called |-> LockTableCalled(r.m)]

\* ConcurrencyManager::slock
CcSlock(t, blk) ==
    LET r == CmSlock(St, t, blk)
    IN /\ QueuesWithinBound(r.m)
       /\ Install(r.m)
       /\ cc_acq' = IF r.m.locks # locks THEN [cc_acq EXCEPT ![t][blk] = @ + 1] ELSE cc_acq
       /\ cc_last' = CcRecord("slock", t, blk, r)
       /\ UNCHANGED cc_pro
       /\ CcFrame

\* ConcurrencyManager::xlock
CcXlock(t, blk) ==
    LET r == CmXlock(St, t, blk)
    IN /\ QueuesWithinBound(r.m)
       /\ Install(r.m)
       /\ cc_acq' = IF r.m.locks # locks /\ cm_locks[t][blk] = "None"
                    THEN [cc_acq EXCEPT ![t][blk] = @ + 1] ELSE cc_acq
       /\ cc_pro' = IF r.m.locks # locks /\ cm_locks[t][blk] # "None"
                    THEN [cc_pro EXCEPT ![t][blk] = @ + 1] ELSE cc_pro
       /\ cc_last' = CcRecord("xlock", t, blk, r)
       /\ CcFrame

\* ConcurrencyManager::release
CcRelease(t) ==
    LET r == CmRelease(St, t)
    IN /\ Install(r.m)
       /\ cc_acq' = [cc_acq EXCEPT ![t] = [b \in LockKeys |-> 0]]
       /\ cc_pro' = [cc_pro EXCEPT ![t] = [b \in LockKeys |-> 0]]
       /\ cc_last' = CcRecord("release", t, 0, r)
       /\ CcFrame

NextCM ==
    \/ \E t \in Txs, blk \in LockKeys : CcSlock(t, blk)
    \/ \E t \in Txs, blk \in LockKeys : CcXlock(t, blk)
    \/ \E t \in Txs : CcRelease(t)

SpecCM == Init /\ [][NextCM]_vars

\* ------------- SpecWait: BufferManager::pin with its wait loop, and unpin,
\* ------------- for threads that share one BufferManager.  try_to_pin is one
\* ------------- step; the time of a call passes in wait_timeout only
PwFrame == UNCHANGED <<txvars, thvars, lowvars, endvars, pinvars, crvars, tsvars, psvars, qsvars, fmvars, smvars, pgvars, prvars, ccvars, after_pw>>

\* variant of wait_timeout that waits for a notification only
WaitForever == FALSE

\* Condvar::wait_timeout returns when max_pin_wait_time_ms have passed
WaitTimesOut == TRUE

\* pin after a try_to_pin that returned buf: leave the loop with the buffer,
\* go on to wait, or leave it with no buffer once the waiting time is spent
PinAfterTry(buf, expired) ==
    IF buf # NoBuf THEN "Ok"
    ELSE IF ~expired THEN "lock"
    ELSE "Pin"

\* try_to_pin can give the thread a buffer: its block is in the pool, or some
\* buffer is not pinned
CanPin(blk) ==
    \/ FindExistingBuffer(buffer_pool, blk) # NoBuf
    \/ ChooseUnpinnedBuffer(buffer_pool) # NoBuf

\* try_to_pin of the thread, and the loop condition after it
PwTry(th, blk, retried) ==
    LET r == TryToPin(St, blk)
    IN /\ Install(r.m)
       /\ pw_pc' = [pw_pc EXCEPT ![th] = PinAfterTry(r.buf, pw_expired[th])]
       /\ pw_buf' = [pw_buf EXCEPT ![th] = r.buf]
       /\ pw_retried' = [pw_retried EXCEPT ![th] = retried]
       /\ pw_free' = [pw_free EXCEPT ![th] = CanPin(blk)]
       /\ pw_missed' = IF retried THEN pw_missed ELSE [pw_missed EXCEPT ![th] = FALSE]

\* pin: the start of the call and the first try_to_pin
PwCall(th, blk) ==
    /\ pw_pc[th] \in {"idle", "Pin"}
    /\ pw_calls[th] < MaxPinCalls
    /\ pw_expired[th] = FALSE
    /\ PwTry(th, blk, FALSE)
    /\ pw_blk' = [pw_blk EXCEPT ![th] = blk]
    /\ pw_calls' = [pw_calls EXCEPT ![th] = @ + 1]
    /\ UNCHANGED <<pw_expired, pw_signal>>
    /\ PwFrame

\* pin: num_available is locked and wait_timeout entered
PwWait(th) ==
    /\ pw_pc[th] = "lock"
    /\ pw_pc' = [pw_pc EXCEPT ![th] = "waiting"]
    /\ pw_signal' = [pw_signal EXCEPT ![th] = FALSE]
    /\ UNCHANGED <<mvars, pw_blk, pw_buf, pw_expired, pw_calls, pw_retried, pw_free, pw_missed>>
    /\ PwFrame

\* wait_timeout returns: the thread goes on to its next try_to_pin;
\* late: the waiting time of the call was spent meanwhile
PwWoken(th, late) ==
    /\ pw_pc' = [pw_pc EXCEPT ![th] = "retry"]
    /\ pw_expired' = [pw_expired EXCEPT ![th] = @ \/ late]
    /\ pw_signal' = [pw_signal EXCEPT ![th] = FALSE]
    /\ UNCHANGED <<mvars, pw_blk, pw_buf, pw_calls, pw_retried, pw_free, pw_missed>>
    /\ PwFrame

\* wait_timeout returns after a notify_all
PwNotified(th, late) ==
    /\ pw_pc[th] = "waiting"
    /\ pw_signal[th]
    /\ PwWoken(th, late)

\* wait_timeout returns with no notification and before its timeout
PwSpurious(th, late) ==
    /\ pw_pc[th] = "waiting"
    /\ ~pw_signal[th]
    /\ PwWoken(th, late)

\* wait_timeout returns after max_pin_wait_time_ms
PwTimeout(th) ==
    /\ pw_pc[th] = "waiting"
    /\ WaitTimesOut
    /\ PwWoken(th, TRUE)

\* pin: the try_to_pin after wait_timeout
PwRetry(th) ==
    /\ pw_pc[th] = "retry"
    /\ PwTry(th, pw_blk[th], TRUE)
    /\ UNCHANGED <<pw_blk, pw_expired, pw_signal, pw_calls>>
    /\ PwFrame

\* pin returned Err(Pin): the caller has the result
PwFail(th) ==
    /\ pw_pc[th] = "Pin"
    /\ pw_expired[th]
    /\ pw_expired' = [pw_expired EXCEPT ![th] = FALSE]
    /\ UNCHANGED <<mvars, pw_pc, pw_blk, pw_buf, pw_signal, pw_calls, pw_retried, pw_free, pw_missed>>
    /\ PwFrame

\* unpin of the buffer the thread holds; notify_all reaches the threads that
\* are in wait_timeout
PwUnpin(th) ==
    /\ pw_pc[th] = "Ok"
    /\ LET m == BmUnpin(St, pw_buf[th])
           notified == ~IsPinned(m.pool[pw_buf[th]])
       IN /\ Install(m)
          /\ pw_signal' = [w \in Threads |-> pw_signal[w] \/ (notified /\ pw_pc[w] = "waiting")]
          /\ pw_missed' = [w \in Threads |-> pw_missed[w] \/ (notified /\ pw_pc[w] = "lock")]
    /\ pw_pc' = [pw_pc EXCEPT ![th] = "idle"]
    /\ pw_buf' = [pw_buf EXCEPT ![th] = NoBuf]
    /\ UNCHANGED <<pw_blk, pw_expired, pw_calls, pw_retried, pw_free>>
    /\ PwFrame

NextWait ==
    \/ \E th \in Threads, blk \in Blocks : PwCall(th, blk)
    \/ \E th \in Threads : PwWait(th)
    \/ \E th \in Threads, late \in BOOLEAN : PwNotified(th, late)
    \/ \E th \in Threads, late \in BOOLEAN : PwSpurious(th, late)
    \/ \E th \in Threads : PwTimeout(th)
    \/ \E th \in Threads : PwRetry(th)
    \/ \E th \in Threads : PwFail(th)
    \/ \E th \in Threads : PwUnpin(th)

SpecWait == Init /\ [][NextWait]_vars

\* a thread that is in pin takes its next step, and wait_timeout returns
PwFair(th) ==
    /\ WF_vars(PwWait(th))
    /\ WF_vars(PwTimeout(th))
    /\ WF_vars(PwRetry(th))

SpecWaitFair == SpecWait /\ \A th \in Threads : PwFair(th)

\* ------------- SpecSelect: a SelectScan or a ProjectScan over one scan of
\* ------------- up to MaxSelRows records with the fields a and b, and the
\* ------------- calls of ReadScan and UpdateScan on it
SlFrame == UNCHANGED <<mvars, txvars, thvars, lowvars, endvars, pinvars, crvars, tsvars, psvars, qsvars, fmvars, smvars, pgvars, prvars, ccvars, pwvars, after_sl>>

\* the scans below
SlChildren ==
    {[n |-> n, pos |-> 0, a |-> a, b |-> b, kind |-> kind] :
        n \in 0..MaxSelRows, a \in UNION {[1..k -> Values] : k \in 0..MaxSelRows},
        b \in UNION {[1..k -> Values] : k \in 0..MaxSelRows},
        kind \in {"ReadOnly", "Updatable"}}

\* SelectScan::new
SlNewSelect(c, pred) ==
    /\ sl_wrap = "none"
    /\ Len(c.a) = c.n /\ Len(c.b) = c.n
    /\ sl_wrap' = "select"
    /\ sl_child' = c
    /\ sl_pred' = pred
    /\ sl_last' = [op |-> "new_select", f |-> "a", res |-> "Ok", called |-> 0, same |-> TRUE]
    /\ UNCHANGED <<sl_fields, sl_out, sl_scanning>>
    /\ SlFrame

\* ProjectScan::new
SlNewProject(c, fields) ==
    /\ sl_wrap = "none"
    /\ Len(c.a) = c.n /\ Len(c.b) = c.n
    /\ sl_wrap' = IF ProjectNew(c, fields) = "Ok" THEN "project" ELSE "failed"
    /\ sl_child' = c
    /\ sl_fields' = fields
    /\ sl_last' = [op |-> "new_project", f |-> "a", res |-> ProjectNew(c, fields), called |-> 0,
                   same |-> TRUE]
    /\ UNCHANGED <<sl_pred, sl_out, sl_scanning>>
    /\ SlFrame

\* a call of the scan opened
SlCall(op, f, v) ==
    /\ sl_wrap \in {"select", "project"}
    /\ op = "insert" => sl_child.n < MaxSelRows
    /\ op = "move_to_rid" => v \in 0..sl_child.n
    /\ LET r == IF sl_wrap = "select" THEN SelectCall(op, sl_child, sl_pred, f, v)
                ELSE ProjectCall(op, sl_child, sl_fields, f, v)
       IN /\ sl_child' = r.c
          /\ sl_last' = [op |-> op, f |-> f, res |-> r.res, called |-> r.called,
                         same |-> r.c = sl_child]
          /\ sl_out' = CASE op = "move_next" /\ sl_scanning /\ r.res = "true" -> Append(sl_out, r.c.pos)
                         [] op \in {"move_next", "get_val"} /\ sl_scanning -> sl_out
                         [] OTHER -> <<>>
          /\ sl_scanning' = CASE op = "before_first" -> TRUE
                              [] op \in {"move_next", "get_val"} -> sl_scanning
                              [] OTHER -> FALSE
    /\ UNCHANGED <<sl_wrap, sl_pred, sl_fields>>
    /\ SlFrame

SlBeforeFirst == SlCall("before_first", "a", 0)
SlMoveNext == SlCall("move_next", "a", 0)
SlGetVal(f) == SlCall("get_val", f, 0)
SlSetVal(f, v) == SlCall("set_val", f, v)
SlInsert == SlCall("insert", "a", 0)
SlDelete == SlCall("delete", "a", 0)
SlMoveToRid(rid) == SlCall("move_to_rid", "a", rid)
SlGetRid == SlCall("get_rid", "a", 0)

NextSelect ==
    \/ \E c \in SlChildren, pred \in SUBSET Terms : SlNewSelect(c, pred)
    \/ \E c \in SlChildren, fields \in (SUBSET {"a", "b", "c"}) \ {{}} : SlNewProject(c, fields)
    \/ SlBeforeFirst
    \/ SlMoveNext
    \/ \E f \in {"a", "b", "c"} : SlGetVal(f)
    \/ \E f \in {"a", "b", "c"}, v \in Values : SlSetVal(f, v)
    \/ SlInsert
    \/ SlDelete
    \/ \E rid \in 0..MaxSelRows : SlMoveToRid(rid)
    \/ SlGetRid

SpecSelect == Init /\ [][NextSelect]_vars

\* ------------- SpecDup: the steps of SpecBM on a pool of NumDupBuffs
\* ------------- buffers, of which the block and the pin count are kept
DpOthers == <<mvars, txvars, thvars, lowvars, endvars, pinvars, crvars, tsvars, psvars, qsvars, fmvars, smvars, pgvars, prvars, ccvars, pwvars, slvars>>

DupBuffers == 1..NumDupBuffs

DpHeld(th) == LET RECURSIVE Sum(_)
                Sum(i) == IF i > NumDupBuffs THEN 0 ELSE dp_held[th][i] + Sum(i + 1)
            IN Sum(1)

\* the call returns an error (BufferManagerError::Lock or ::Pin) to its caller
DpReturnErr(th) ==
    /\ dp_pc' = [dp_pc EXCEPT ![th] = "idle"]
    /\ UNCHANGED <<DpOthers, dp_pool, dp_avail, dp_blk, dp_idx, dp_buf, dp_held, dp_poisoned>>

\* the counters are within MaxDrift of the range they have without wrapping
DpWithinDrift ==
    /\ dp_avail \in (0 - MaxDrift)..(NumDupBuffs + MaxDrift)
    /\ \A i \in DupBuffers : dp_pool[i].pins \in (0 - MaxDrift)..(NumThreads * MaxHeld + MaxDrift)

\* BufferManager::pin is entered
DpPinCall(th, blk) ==
    /\ dp_pc[th] = "idle"
    /\ DpHeld(th) < MaxHeld
    /\ DpWithinDrift
    /\ dp_pc' = [dp_pc EXCEPT ![th] = "find"]
    /\ dp_blk' = [dp_blk EXCEPT ![th] = blk]
    /\ dp_idx' = [dp_idx EXCEPT ![th] = 1]
    /\ dp_buf' = [dp_buf EXCEPT ![th] = NoBuf]
    /\ UNCHANGED <<DpOthers, dp_pool, dp_avail, dp_held, dp_poisoned>>

\* one iteration of the loop of find_existing_buffer
DpFindStep(th) ==
    /\ dp_pc[th] = "find"
    /\ LET i == dp_idx[th]
       IN IF i \in dp_poisoned THEN DpReturnErr(th)
          ELSE /\ IF dp_pool[i].block = dp_blk[th]
                  THEN /\ dp_pc' = [dp_pc EXCEPT ![th] = "pin"]
                       /\ dp_buf' = [dp_buf EXCEPT ![th] = i]
                       /\ UNCHANGED dp_idx
                  ELSE IF i < NumDupBuffs
                  THEN /\ dp_idx' = [dp_idx EXCEPT ![th] = i + 1]
                       /\ UNCHANGED <<dp_pc, dp_buf>>
                  ELSE /\ dp_pc' = [dp_pc EXCEPT ![th] = "choose"]
                       /\ dp_idx' = [dp_idx EXCEPT ![th] = 1]
                       /\ UNCHANGED dp_buf
               /\ UNCHANGED <<DpOthers, dp_pool, dp_avail, dp_blk, dp_held, dp_poisoned>>

\* one iteration of the loop of choose_unpinned_buffer
DpChooseStep(th) ==
    /\ dp_pc[th] = "choose"
    /\ LET i == dp_idx[th]
       IN IF i \in dp_poisoned THEN DpReturnErr(th)
          ELSE /\ IF ~IsPinned(dp_pool[i])
                  THEN /\ dp_pc' = [dp_pc EXCEPT ![th] = "assign"]
                       /\ dp_buf' = [dp_buf EXCEPT ![th] = i]
                       /\ UNCHANGED dp_idx
                  ELSE IF i < NumDupBuffs
                  THEN /\ dp_idx' = [dp_idx EXCEPT ![th] = i + 1]
                       /\ UNCHANGED <<dp_pc, dp_buf>>
                  ELSE /\ dp_pc' = [dp_pc EXCEPT ![th] = "none"]
                       /\ UNCHANGED <<dp_idx, dp_buf>>
               /\ UNCHANGED <<DpOthers, dp_pool, dp_avail, dp_blk, dp_held, dp_poisoned>>

\* try_to_pin locks the chosen buffer again and assigns it to the block
DpAssignStep(th) ==
    /\ dp_pc[th] = "assign"
    /\ IF dp_buf[th] \in dp_poisoned THEN DpReturnErr(th)
       ELSE /\ dp_pool' = [dp_pool EXCEPT ![dp_buf[th]] = [block |-> dp_blk[th], pins |-> 0]]
            /\ UNCHANGED dp_avail
            /\ dp_pc' = [dp_pc EXCEPT ![th] = "pin"]
            /\ UNCHANGED <<DpOthers, dp_blk, dp_idx, dp_buf, dp_held, dp_poisoned>>

\* try_to_pin locks the buffer a last time: dp_avail, then Buffer::pin.
\* `*dp_avail -= 1` at 0 panics in a build with overflow checks (both
\* mutexes are held and become dp_poisoned) and wraps in a build without.
DpPinStep(th) ==
    /\ dp_pc[th] = "pin"
    /\ LET i == dp_buf[th]
       IN IF i \in dp_poisoned \/ (~IsPinned(dp_pool[i]) /\ NumAvailableMutex \in dp_poisoned)
          THEN DpReturnErr(th)
          ELSE \/ /\ dp_avail' = IF IsPinned(dp_pool[i]) THEN dp_avail ELSE dp_avail - 1
                  /\ dp_pool' = [dp_pool EXCEPT ![i].pins = @ + 1]
                  /\ dp_held' = [dp_held EXCEPT ![th][i] = dp_held[th][i] + 1]
                  /\ dp_pc' = [dp_pc EXCEPT ![th] = "idle"]
                  /\ UNCHANGED <<DpOthers, dp_blk, dp_idx, dp_buf, dp_poisoned>>
               \/ /\ ~IsPinned(dp_pool[i]) /\ dp_avail = 0
                  /\ dp_poisoned' = dp_poisoned \cup {i, NumAvailableMutex}
                  /\ dp_pc' = [dp_pc EXCEPT ![th] = "panicked"]
                  /\ UNCHANGED <<DpOthers, dp_pool, dp_avail, dp_blk, dp_idx, dp_buf, dp_held>>

\* try_to_pin returned None: the thread waits on the condition variable
\* (until notified or for the whole budget) and tries again
DpWait(th) ==
    /\ dp_pc[th] = "none"
    /\ IF NumAvailableMutex \in dp_poisoned THEN DpReturnErr(th)
       ELSE /\ dp_pc' = [dp_pc EXCEPT ![th] = "find"]
            /\ dp_idx' = [dp_idx EXCEPT ![th] = 1]
            /\ UNCHANGED <<DpOthers, dp_pool, dp_avail, dp_blk, dp_buf, dp_held, dp_poisoned>>

\* try_to_pin returned None and the budget is spent: Err(BufferManagerError::Pin)
DpPinFail(th) ==
    /\ dp_pc[th] = "none"
    /\ DpReturnErr(th)

\* BufferManager::unpin of a handle the thread holds.  Buffer::unpin at
\* pins = 0 panics in a build with overflow checks and wraps in a build without.
DpUnpinCall(th, i) ==
    /\ dp_pc[th] = "idle"
    /\ dp_held[th][i] > 0
    /\ dp_held' = [dp_held EXCEPT ![th][i] = dp_held[th][i] - 1]
    /\ IF i \in dp_poisoned
       THEN UNCHANGED <<DpOthers, dp_pool, dp_avail, dp_pc, dp_blk, dp_idx, dp_buf, dp_poisoned>>
       ELSE \/ /\ dp_pool' = [dp_pool EXCEPT ![i].pins = @ - 1]
               /\ dp_avail' = IF dp_pool[i].pins = 1 /\ NumAvailableMutex \notin dp_poisoned
                              THEN dp_avail + 1 ELSE dp_avail
               /\ UNCHANGED <<DpOthers, dp_pc, dp_blk, dp_idx, dp_buf, dp_poisoned>>
            \/ /\ dp_pool[i].pins = 0
               /\ dp_poisoned' = dp_poisoned \cup {i}
               /\ dp_pc' = [dp_pc EXCEPT ![th] = "panicked"]
               /\ UNCHANGED <<DpOthers, dp_pool, dp_avail, dp_blk, dp_idx, dp_buf>>

NextDup ==
    \/ \E th \in Threads, blk \in Blocks : DpPinCall(th, blk)
    \/ \E th \in Threads : DpFindStep(th)
    \/ \E th \in Threads : DpChooseStep(th)
    \/ \E th \in Threads : DpAssignStep(th)
    \/ \E th \in Threads : DpPinStep(th)
    \/ \E th \in Threads : DpWait(th)
    \/ \E th \in Threads : DpPinFail(th)
    \/ \E th \in Threads, i \in DupBuffers : DpUnpinCall(th, i)

SpecDup == Init /\ [][NextDup]_vars

\* ----------------------------------------------------------- properties
\* the whole log, oldest record first: the blocks before the tail, then the page
AllRecs(m) == Flatten(SubSeq(m.dlog, 1, m.cur)) \o m.page

\* the records of the log file
DiskRecs(m) == Flatten(m.dlog)

\* the records of the page that are not in the log file yet
Unsaved(m) == SubSeq(m.page, Len(LogBlock(m.dlog, m.cur)) + 1, Len(m.page))

\* what a transaction that pins the block reads at the offset
CurVal(m, blk, off) ==
    LET e == FindExistingBuffer(m.pool, blk)
    IN IF e # NoBuf THEN m.pool[e].contents[off] ELSE m.disk[blk][off]

Max(S) == CHOOSE x \in S : \A y \in S : x >= y

\* C1: while a buffer's pin count is positive, no step of a pin call assigns
\* it to another block or resets its pin count (the count goes down only by
\* an unpin of a handle a thread holds).
C1_PinnedBufferKept ==
    [][\A i \in Buffers :
          buffer_pool[i].pins > 0 =>
             /\ buffer_pool'[i].block = buffer_pool[i].block
             /\ \/ buffer_pool'[i].pins >= buffer_pool[i].pins
                \/ \E th \in Threads : th_held'[th][i] < th_held[th][i]]_vars

\* the transactions that hold a lock of the kind on the block
Holders(b, kind) == {t \in Txs : cm_locks[t][b] = kind}

\* C2: a block is held either by exactly one exclusive holder and no shared
\* holder, or by shared holders only (as many as the lock table counts) and
\* no exclusive holder.
C2_LockExclusion ==
    \A b \in Blocks :
       /\ locks[b] = Exclusive =>
             Cardinality(Holders(b, "Exclusive")) = 1 /\ Holders(b, "Shared") = {}
       /\ locks[b] # Exclusive =>
             Cardinality(Holders(b, "Shared")) = locks[b] /\ Holders(b, "Exclusive") = {}

\* an exclusive holder exists and another transaction's request was refused
C2_Witness ==
    \E b \in Blocks, t \in Txs, u \in Txs :
       /\ t # u
       /\ locks[b] = Exclusive
       /\ cm_locks[t][b] = "Exclusive"
       /\ Len(queues[b]) > 0 /\ queues[b][1] = u

\* C9: while another transaction holds the exclusive lock of a block, get_int
\* and set_int on the block end with a lock timeout and leave the lock of the
\* block, the pages, the log and the caller's lock set as they were; when the
\* holder commits, the caller's get_int succeeds and returns the holder's value.
C9_TimeoutThenSuccess ==
    [][\A t \in Txs, u \in Txs, b \in Blocks, o \in Offsets :
          (t # u /\ cm_locks[t][b] = "Exclusive" /\ Running(u)) =>
             /\ (GetInt(u, b, o) \/ \E v \in Values : SetInt(u, b, o, v, TRUE)) =>
                   /\ TxGetInt(St, u, b, o).err = "Timeout"
                   /\ \A v \in Values : TxSetInt(St, u, tx_num[u], b, o, v, TRUE).err = "Timeout"
                   /\ UNCHANGED <<locks, buffer_pool, disk, disk_log, log_page,
                                  latest_lsn, last_saved_lsn, cm_locks>>
             /\ (Commit(t) /\ bl_buffers[u][b] # NoBuf) =>
                   /\ TxGetInt(St', u, b, o).err = "Ok"
                   /\ TxGetInt(St', u, b, o).val = CurVal(St, b, o)]_vars

\* a transaction waits in the queue of a block it has pinned while another
\* transaction holds the block exclusively and has changed the value
C9_Witness ==
    \E t \in Txs, u \in Txs, b \in Blocks, o \in Offsets :
       /\ t # u
       /\ cm_locks[t][b] = "Exclusive"
       /\ bl_buffers[u][b] # NoBuf
       /\ Len(queues[b]) > 0 /\ queues[b][1] = u
       /\ CurVal(St, b, o) # disk[b][o]

LsnOrZero(buf) == IF buf.lsn = None THEN 0 ELSE buf.lsn

C4_RecordsBeforePage ==
    [][\A blk \in Blocks :
          disk'[blk] # disk[blk] =>
             \A k \in 1..Len(Unsaved(St')) :
                ~(Unsaved(St')[k].op = "SetInt" /\ Unsaved(St')[k].blk = blk)]_vars

\* C5: when commit returns Ok, the newest record of the log is the
\* transaction's Commit record and every record of the transaction is in
\* the log file.
C5_CommitDurable ==
    [][\A t \in Txs :
          (Commit(t) /\ TxCommit(St, t, tx_num[t]).err = "Ok") =>
             LET a == AllRecs(St')
                 d == DiskRecs(St')
             IN /\ a[Len(a)] = CommitRec(tx_num[t])
                /\ \A k \in 1..Len(a) : a[k].tx = tx_num[t] => (k <= Len(d) /\ d[k] = a[k])]_vars

\* a committed transaction with a SetInt record, in a log file of two blocks
C5_Witness ==
    LET d == DiskRecs(St)
    IN /\ Len(disk_log) >= 2
       /\ Len(d) >= 3
       /\ d[Len(d)].op = "Commit"
       /\ \E k \in 1..Len(d) : d[k].op = "SetInt" /\ d[k].tx = d[Len(d)].tx

\* the positions of the SetInt records of transaction n on the offset
Writes(recs, n, blk, off) ==
    {k \in 1..Len(recs) : recs[k].op = "SetInt" /\ recs[k].tx = n
                          /\ recs[k].blk = blk /\ recs[k].off = off}

\* C6 (as the code has it): when rollback returns Ok, every offset the
\* transaction wrote with logging holds the value it held before the
\* transaction's first logged write to it, and every other offset reads as
\* before the rollback (no record of another transaction is undone).
C6_RollbackRestoresLogged ==
    [][\A t \in Txs :
          (Rollback(t) /\ TxRollback(St, t, tx_num[t]).err = "Ok") =>
             \A blk \in Blocks, off \in Offsets :
                LET a == AllRecs(St)
                    mine == Writes(a, tx_num[t], blk, off)
                IN IF mine # {}
                   THEN CurVal(St', blk, off) = a[Min(mine)].old
                   ELSE CurVal(St', blk, off) = CurVal(St, blk, off)]_vars

\* C6 (as stated): when rollback returns Ok, every offset the transaction
\* wrote with logging holds the value it held before the transaction's
\* first write to it.
C6_RollbackRestoresFirstWrite ==
    [][\A t \in Txs :
          (Rollback(t) /\ TxRollback(St, t, tx_num[t]).err = "Ok") =>
             \A blk \in Blocks, off \in Offsets :
                Writes(AllRecs(St), tx_num[t], blk, off) # {} =>
                   CurVal(St', blk, off) = tx_before[t][blk][off]]_vars

\* a rollback has undone a logged write that changed the value, after
\* another transaction committed a write
C6_Witness ==
    LET d == DiskRecs(St)
    IN /\ Len(d) >= 2
       /\ d[Len(d)].op = "Rollback"
       /\ \E k \in 1..Len(d) :
             /\ d[k].op = "SetInt" /\ d[k].tx = d[Len(d)].tx /\ d[k].old # d[k].new
             /\ CurVal(St, d[k].blk, d[k].off) = d[k].old
       /\ \E k \in 1..Len(d) : d[k].op = "Commit"

\* the records after the newest CheckPoint record
Segment(recs) ==
    LET cps == {k \in 1..Len(recs) : recs[k].op = "CheckPoint"}
    IN IF cps = {} THEN recs ELSE SubSeq(recs, Max(cps) + 1, Len(recs))

CommittedIn(recs) == {recs[k].tx : k \in {j \in 1..Len(recs) : recs[j].op = "Commit"}}

\* the value recovery has to leave at the offset: the value of the newest
\* write of a committed transaction, else the value before the oldest write
\* of the others, else the value read now
Expected(m, blk, off) ==
    LET seg == Segment(AllRecs(m))
        ws == {k \in 1..Len(seg) : seg[k].op = "SetInt" /\ seg[k].blk = blk /\ seg[k].off = off}
        cw == {k \in ws : seg[k].tx \in CommittedIn(seg)}
    IN IF cw # {} THEN seg[Max(cw)].new
       ELSE IF ws # {} THEN seg[Min(ws)].old
       ELSE CurVal(m, blk, off)

\* the newest record of the log is a CheckPoint record (recover has written it)
EndsWithCheckPoint == log_page # <<>> /\ log_page[Len(log_page)].op = "CheckPoint"

Releases(t) == \E b \in Blocks : cm_locks[t][b] # "None" /\ cm_locks'[t][b] = "None"

\* the logged writes of the running transaction of number n to the offset:
\* those after the newest Start record of n (a restart hands out the
\* transaction numbers again)
OwnWrites(recs, n, blk, off) ==
    LET starts == {k \in 1..Len(recs) : recs[k].op = "Start" /\ recs[k].tx = n}
    IN {k \in Writes(recs, n, blk, off) : starts # {} => k > Max(starts)}

\* every offset the transaction wrote with logging reads as before its first logged write
UndoApplied(t) ==
    \A blk \in Blocks, off \in Offsets :
       LET a == AllRecs(St)
           mine == OwnWrites(a, tx_num[t], blk, off)
       IN mine # {} => CurVal(St', blk, off) = a[Min(mine)].old

CommitFlushed(t) ==
    \E k \in 1..Len(DiskRecs(St')) : DiskRecs(St')[k] = CommitRec(tx_num[t])

\* C8 (as the code has it): a running process takes a lock from a transaction
\* only in the transaction's commit, rollback or recover; unpin never does;
\* after a commit that released a lock the Commit record is in the log file,
\* and after a rollback that released a lock every undo write is applied.
C8_ReleaseAtEnd ==
    [][\A t \in Txs :
          (Releases(t) /\ ~Crash) =>
             \/ Commit(t) /\ CommitFlushed(t)
             \/ Rollback(t) /\ UndoApplied(t)
             \/ Recover(t)]_vars

\* C8 (as stated): a transaction releases a lock only inside commit or rollback.
C8_ReleaseOnlyCommitRollback ==
    [][\A t \in Txs :
          (Releases(t) /\ ~Crash) =>
             \/ Commit(t) /\ CommitFlushed(t)
             \/ Rollback(t) /\ UndoApplied(t)]_vars

\* a transaction has unpinned a block it wrote and still holds its exclusive lock
C8_Witness ==
    \E t \in Txs, b \in Blocks :
       /\ tx_status[t] = "active"
       /\ cm_locks[t][b] = "Exclusive"
       /\ bl_pins[t][b] = 0
       /\ \E k \in 1..Len(AllRecs(St)) :
             AllRecs(St)[k].op = "SetInt" /\ AllRecs(St)[k].tx = tx_num[t] /\ AllRecs(St)[k].blk = b

\* every buffer is pinned, the buffers hold distinct blocks, none holds blk
FullPool(blk) ==
    /\ \A i \in Buffers : IsPinned(buffer_pool[i]) /\ buffer_pool[i].block \notin {None, blk}
    /\ \A i \in Buffers, j \in Buffers : i # j => buffer_pool[i].block # buffer_pool[j].block

\* C10: with every buffer pinned to a block of its own, pin of a block that
\* is not in the pool ends with BufferManagerError::Pin and leaves every
\* buffer's block and pin count and the available count unchanged; with a
\* buffer at pin count 0, pin of a block that is not in the pool succeeds
\* and the buffer it returns holds the block with pin count 1.
C10_PinFailsWhenFull ==
    [][\A th \in Threads, blk \in Blocks :
          PinWhole(th, blk) =>
             /\ FullPool(blk) =>
                   /\ th_pc'[th] = "Pin"
                   /\ UNCHANGED <<buffer_pool, num_available>>
             /\ (/\ FindExistingBuffer(buffer_pool, blk) = NoBuf
                 /\ \E i \in Buffers : ~IsPinned(buffer_pool[i])) =>
                   /\ th_pc'[th] = "Ok"
                   /\ buffer_pool'[th_buf'[th]].block = blk
                   /\ buffer_pool'[th_buf'[th]].pins = 1
                   /\ num_available' = num_available - 1]_vars

\* a thread's pin has failed on a full pool, which is as it was
C10_Witness ==
    \E th \in Threads :
       /\ th_pc[th] = "Pin"
       /\ FullPool(th_blk[th])
       /\ num_available = 0

\* the page of buffer buf is modified and not written to its block yet
Modified(buf) == buf.block # None /\ buf.txnum # None

\* C11: a modified buffer that stays assigned to its block is not written
\* to the data file by any step but recover (the only caller of flush_all);
\* a pin that takes a modified buffer as victim writes its page to the block
\* it held and then reads the new block in; a recover that succeeds leaves
\* every assigned buffer unmodified with its page in the data file.
C11_WrittenOnEvictionOrFlushAll ==
    [][/\ \A i \in Buffers :
             Modified(buffer_pool[i]) =>
                /\ (/\ buffer_pool'[i].block = buffer_pool[i].block
                    /\ ~(\E t \in Txs : Recover(t))) =>
                      disk'[buffer_pool[i].block] = disk[buffer_pool[i].block]
                /\ (/\ buffer_pool'[i].block # buffer_pool[i].block
                    /\ \E t \in Txs, b \in Blocks : Pin(t, b)) =>
                      /\ disk'[buffer_pool[i].block] = buffer_pool[i].contents
                      /\ buffer_pool'[i].contents = disk'[buffer_pool'[i].block]
       /\ (\E t \in Txs : Recover(t) /\ tx_status'[t] = "active") =>
             \A i \in Buffers :
                buffer_pool'[i].block # None =>
                   /\ ~Modified(buffer_pool'[i])
                   /\ disk'[buffer_pool'[i].block] = buffer_pool'[i].contents]_vars

\* a page modified by a transaction reached the data file by eviction: no
\* recover has run, the block is in no buffer, and the file holds the write
C11_Witness ==
    /\ \A k \in 1..Len(AllRecs(St)) : AllRecs(St)[k].op # "CheckPoint"
    /\ \E b \in Blocks :
          /\ FindExistingBuffer(buffer_pool, b) = NoBuf
          /\ \E o \in Offsets : disk[b][o] # 0

\* the first n elements of the sequence in reverse order
Newest(seq, n) == [k \in 1..n |-> seq[Len(seq) - k + 1]]

\* C12: the records a LogIterator has returned are the newest of the
\* appended records, newest first, each once, and it is at its end only
\* when it has returned them all; the records a LogReverseIterator made
\* from it has returned are the oldest of the records the LogIterator had
\* returned, oldest first, and it is at its end only when it has returned
\* them all.
C12_IteratorsYieldAll ==
    /\ lg_pc # "append" =>
          /\ Len(lg_fwd) <= Len(lg_appended)
          /\ lg_fwd = Newest(lg_appended, Len(lg_fwd))
          /\ ItAtEnd(lg_it) => Len(lg_fwd) = Len(lg_appended)
    /\ lg_pc = "reverse" =>
          /\ Len(lg_rev) <= Len(lg_fwd)
          /\ lg_rev = Newest(lg_fwd, Len(lg_rev))
          /\ RevAtEnd(lg_rit) => Len(lg_rev) = Len(lg_fwd)

\* the log has three blocks, the LogIterator stopped inside the middle one,
\* and the LogReverseIterator returned what it had read and is at its end
C12_Witness ==
    /\ lg_pc = "reverse"
    /\ Len(disk_log) = 3
    /\ lg_it.block = 1
    /\ lg_it.pos < Len(lg_it.page)
    /\ Len(lg_fwd) >= 2
    /\ RevAtEnd(lg_rit)
    /\ Len(lg_rev) = Len(lg_fwd)

\* C13: the LSNs append returned are 1, 2, 3, .. in the order of the
\* returns, and when no thread is inside append the log holds exactly the
\* records of the appends that returned, in the order of their LSNs.
C13_AppendsKept ==
    /\ \A k \in 1..Len(la_ret) : la_ret[k].lsn = k
    /\ (\A th \in Threads : la_pc[th] = "idle") =>
          AllRecs(St) = [k \in 1..Len(la_ret) |-> la_ret[k].rec]

\* C14: promote_to_xlock of the only shared holder turns Shared(1) into
\* Exclusive in one step and returns Ok; and the promote_to_xlock of a
\* thread does not run out of its budget while another shared holder of the
\* block has called unlock.
C14_PromotionAfterUnlock ==
    [][\A th \in Lockers :
          /\ (LtTry(th) /\ lt_op[th] = "promote" /\ lt_lock = 1) =>
                /\ lt_lock' = Exclusive
                /\ lt_res'[th] = "Ok"
          /\ (LtTimeout(th) /\ lt_op[th] = "promote") =>
                ~\E u \in Lockers \ {th} :
                    lt_pc[u] = "try" /\ lt_op[u] = "unlock" /\ lt_holds[u] = "Shared"]_vars

\* C15: the second half of an unlock that removed the lock entry leaves the
\* queue empty and every thread that was in it, and every thread that was
\* parked in slock / xlock / promote_to_xlock, with a park token, so that
\* the thread tries again within its budget.
C15_NoLostWakeup ==
    [][\A th \in Lockers :
          LtDrain(th) =>
             /\ lt_queue' = <<>>
             /\ \A k \in 1..Len(lt_queue) : lt_token'[lt_queue[k]]
             /\ \A u \in Lockers : lt_pc[u] = "parked" => lt_token'[u]]_vars

\* C16: whenever no thread is inside pin or unpin, num_available is the
\* number of buffers whose pin count is 0, and it is within 0..NumBuffs.
C16_AvailableCount ==
    (\A th \in Threads : th_pc[th] = "idle") =>
       /\ num_available = Cardinality({i \in Buffers : buffer_pool[i].pins = 0})
       /\ num_available \in 0..NumBuffs

\* the first n records of the log are in the log file of m
OnDisk(m, n) ==
    \A k \in 1..n : k <= Len(DiskRecs(m)) /\ DiskRecs(m)[k] = AllRecs(St)[k]

\* C17: (the k-th record appended since the LogManager was made has LSN k)
\* last_saved_lsn <= latest_lsn; every record with LSN <= last_saved_lsn
\* is in the log file; after flush(lsn) every record with LSN <= lsn is in
\* the log file; and no step lowers last_saved_lsn.
C17_SavedLsn ==
    /\ [](/\ latest_lsn = Len(AllRecs(St))
          /\ last_saved_lsn <= latest_lsn
          /\ OnDisk(St, last_saved_lsn)
          /\ \A lsn \in 0..latest_lsn : OnDisk(LmFlush(St, lsn), lsn))
    /\ [][last_saved_lsn' >= last_saved_lsn]_vars

\* a full tail block was replaced by a new one, records up to
\* last_saved_lsn are saved and a newer record is not
C17_Witness ==
    /\ current_block >= 1
    /\ 0 < last_saved_lsn
    /\ last_saved_lsn < latest_lsn
    /\ Unsaved(St) # <<>>

\* the SetInt records on the offset among the records newer than the newest
\* CheckPoint record
SegmentWrites(m, blk, off) ==
    LET seg == Segment(AllRecs(m))
    IN {k \in 1..Len(seg) : seg[k].op = "SetInt" /\ seg[k].blk = blk /\ seg[k].off = off}

\* C18: a recover that returns Ok leaves every offset without a SetInt
\* record newer than the newest CheckPoint record as it was (no older
\* record is undone or redone); at an offset whose records newer than that
\* CheckPoint are all of committed transactions it leaves the value of the
\* newest of them (they are replayed oldest first); and it ends with every
\* assigned buffer written to the data file and a new CheckPoint record as
\* the last record of the log, in the log file.
C18_RecoverStopsAtCheckPoint ==
    [][\A t \in Txs :
          (EndsWithCheckPoint' /\ Recover(t) /\ tx_status'[t] = "active") =>
             /\ \A blk \in Blocks, off \in Offsets :
                   LET seg == Segment(AllRecs(St))
                       ws == SegmentWrites(St, blk, off)
                   IN /\ ws = {} => CurVal(St, blk, off)' = CurVal(St, blk, off)
                      /\ (ws # {} /\ \A k \in ws : seg[k].tx \in CommittedIn(seg)) =>
                            CurVal(St, blk, off)' = seg[Max(ws)].new
             /\ \A i \in Buffers :
                   buffer_pool'[i].block # None =>
                      disk'[buffer_pool'[i].block] = buffer_pool'[i].contents
             /\ AllRecs(St)' = Append(AllRecs(St), CheckPointRec)
             /\ DiskRecs(St)' = AllRecs(St)']_vars

\* recover has returned on a log with an older CheckPoint record, a SetInt
\* record older than it that changed the value, and a SetInt record newer
\* than it
C18_Witness ==
    LET d == DiskRecs(St)
    IN /\ Len(d) >= 4
       /\ d[Len(d)].op = "CheckPoint"
       /\ \E k \in 1..Len(d), j \in 1..Len(d), i \in 1..Len(d) :
             /\ k < j /\ j < i /\ i < Len(d)
             /\ d[k].op = "SetInt" /\ d[k].old # d[k].new
             /\ d[j].op = "CheckPoint"
             /\ d[i].op = "SetInt"
             /\ \A h \in (j + 1)..(Len(d) - 1) : d[h].op # "CheckPoint"

\* transaction t is running and has called size or append
KnowsLength(t) == Running(t) /\ eof_seen[t].n = tx_num[t]

\* C19: a running transaction that has called size or append holds a lock
\* on the end-of-file block; no other running transaction that has called
\* one of them holds it too unless both only called size; and the file has
\* as many blocks as the transaction knows from size and its own appends.
C19_LengthProtected ==
    \A t \in Txs :
       KnowsLength(t) =>
          /\ cm_locks[t][EndOfFile] # "None"
          /\ \A u \in Txs \ {t} :
                KnowsLength(u) =>
                   cm_locks[t][EndOfFile] = "Shared" /\ cm_locks[u][EndOfFile] = "Shared"
          /\ file_len = eof_seen[t].len

\* C20: the block numbers append returned are distinct, and when no thread
\* is inside append the file (empty at first) has as many blocks as there
\* were appends.
C20_AppendGrowsByOne ==
    /\ \A j \in 1..Len(fa_ret), k \in 1..Len(fa_ret) : j # k => fa_ret[j] # fa_ret[k]
    /\ (\A th \in Appenders : fa_pc[th] = "idle") => file_len = Len(fa_ret)

\* ------------------------------------------------------------------- C21
\* the pins the transactions hold on the buffer i, by their own lists
RECURSIVE PinsOnFrom(_, _, _)
PinsOnFrom(i, t, b) ==
    IF t > NumTx THEN 0
    ELSE IF b > MaxBlock THEN PinsOnFrom(i, t + 1, 0)
    ELSE (IF bl_buffers[t][b] = i THEN bl_pins[t][b] ELSE 0) + PinsOnFrom(i, t, b + 1)

\* the lock table entry that the transactions' own maps account for
LockOf(b) ==
    IF \E t \in Txs : cm_locks[t][b] = "Exclusive" THEN Exclusive
    ELSE Cardinality({t \in Txs : cm_locks[t][b] = "Shared"})

\* C21: a transaction whose commit or rollback returned Ok holds no lock and
\* no pin: its lock map and its pin list are empty, every lock table entry
\* and every buffer's pin count are those of the other transactions alone,
\* and num_available counts the buffers nobody pins.
C21_NothingHeldAfterEnd ==
    /\ \A t \in Txs :
          tx_status[t] = "none" =>
             /\ \A b \in LockKeys : cm_locks[t][b] = "None"
             /\ \A b \in Blocks : bl_pins[t][b] = 0 /\ bl_buffers[t][b] = NoBuf
    /\ \A b \in LockKeys : locks[b] = LockOf(b)
    /\ \A i \in Buffers : buffer_pool[i].pins = PinsOnFrom(i, 1, 0)
    /\ num_available = Cardinality({i \in Buffers : ~IsPinned(buffer_pool[i])})

\* a rollback that found a pin and a lock returned Ok while another
\* transaction still pins a block
C21_Witness ==
    \E t \in Txs : \E u \in Txs \ {t} :
       /\ tx_status[t] = "none"
       /\ end_held[t].call = "rollback" /\ end_held[t].pins > 0 /\ end_held[t].locks > 0
       /\ tx_status[u] = "active"
       /\ \E b \in Blocks : bl_pins[u][b] > 0
       /\ \E k \in 1..Len(AllRecs(St)) :
             AllRecs(St)[k].op = "SetInt" /\ AllRecs(St)[k].tx = tx_num[t]

\* ------------------------------------------------------------------- C22
\* the outstanding pins of the lists on the block that the buffer i holds
RECURSIVE OutOnFrom(_, _)
OutOnFrom(i, t) ==
    IF t > NumTx THEN 0
    ELSE (IF buffer_pool[i].block \in Blocks THEN bp_out[t][buffer_pool[i].block] ELSE 0)
         + OutOnFrom(i, t + 1)

\* C22: unpin(b) of a pin list returns Ok exactly when more pin(b) calls
\* have returned a buffer than unpin(b) calls have returned Ok; otherwise
\* it returns the invalid-call error and changes no pin count.  The pins a
\* list holds on the buffer of b are its outstanding pins of b: each buffer
\* is pinned as often as the lists have outstanding pins of its block, and
\* a block with outstanding pins is in the buffer its list remembers.
C22_UnpinMatchesPins ==
    /\ bp_last.err # "none" =>
          /\ bp_last.err = "Ok" <=> bp_last.out > 0
          /\ bp_last.err # "Ok" => bp_last.err = "InvalidCall" /\ ~bp_last.changed
    /\ \A i \in Buffers : buffer_pool[i].pins = OutOnFrom(i, 1)
    /\ \A t \in Txs, b \in Blocks :
          /\ bl_pins[t][b] = bp_out[t][b]
          /\ bp_out[t][b] > 0 =>
                bl_buffers[t][b] # NoBuf /\ buffer_pool[bl_buffers[t][b]].block = b

\* a list pinned a block twice, unpinned it twice and was refused the third
\* unpin, while the other list still pins the block
C22_Witness ==
    \E t \in Txs, b \in Blocks :
       /\ bp_last.err = "InvalidCall" /\ bp_last.out = 0
       /\ bp_last.t = t /\ bp_last.blk = b
       /\ bp_out[t][b] = 0
       /\ \E u \in Txs : bp_out[u][b] = 2

\* ------------------------------------------------------------------- C23
\* the transaction numbers of the Start records of recs, in order
RECURSIVE StartsOf(_)
StartsOf(recs) ==
    IF recs = <<>> THEN <<>>
    ELSE (IF Head(recs).op = "Start" THEN <<Head(recs).tx>> ELSE <<>>) \o StartsOf(Tail(recs))

\* C23: create returns strictly increasing transaction numbers, and the log
\* holds the Start records in the order of their numbers: every number
\* create has returned has its Start record in the log, the Start records
\* are in increasing order, and each record of a transaction comes after
\* the Start record of that transaction.
C23_StartRecordsInOrder ==
    /\ \A j \in 1..Len(cr_made), k \in 1..Len(cr_made) : j < k => cr_made[j] < cr_made[k]
    /\ \A j \in 1..Len(cr_made) :
          \E k \in 1..Len(AllRecs(St)) : AllRecs(St)[k] = StartRec(cr_made[j])
    /\ \A j \in 1..Len(StartsOf(AllRecs(St))), k \in 1..Len(StartsOf(AllRecs(St))) :
          j < k => StartsOf(AllRecs(St))[j] < StartsOf(AllRecs(St))[k]
    /\ \A k \in 1..Len(AllRecs(St)) :
          AllRecs(St)[k].op # "Start" =>
             \E j \in 1..(k - 1) : AllRecs(St)[j] = StartRec(AllRecs(St)[k].tx)

\* ------------------------------------------------------------------- C24
\* the slots of the file that are flagged Used
UsedSlots(file) ==
    {r \in Rids : r[1] < Len(file) /\ file[r[1] + 1][RootOffset(r[2])] = Used}

\* the record r comes before the record q in the file
Before(r, q) == r[1] < q[1] \/ (r[1] = q[1] /\ r[2] < q[2])

\* C24: after before_first, move_next stops only on slots flagged Used, in
\* increasing (block, slot) order, so on each once; so far it has stopped
\* on every Used slot up to the current position; it returns false on the
\* last block only, and then the scan has yielded exactly the records
\* inserted and not deleted, each with the value that was set.
C24_ScanVisitsUsedSlots ==
    /\ UsedSlots(ts_file) = {r \in Rids : ts_expect[r].live}
    /\ ts_scan # "off" =>
          /\ \A k \in 1..Len(ts_visited) : ts_visited[k].rid \in UsedSlots(ts_file)
          /\ \A j \in 1..Len(ts_visited), k \in 1..Len(ts_visited) :
                j < k => Before(ts_visited[j].rid, ts_visited[k].rid)
          /\ ts_scan = "on" =>
                {ts_visited[k].rid : k \in 1..Len(ts_visited)}
                   = {r \in UsedSlots(ts_file) : ~Before(<<ts_block, ts_slot>>, r)}
    /\ ts_scan = "done" =>
          /\ ts_block = Len(ts_file) - 1
          /\ {ts_visited[k].rid : k \in 1..Len(ts_visited)} = UsedSlots(ts_file)
          /\ \A k \in 1..Len(ts_visited) :
                ts_expect[ts_visited[k].rid].set =>
                   ts_visited[k].val = ts_expect[ts_visited[k].rid].val

\* a scan over two blocks ended; it yielded two records or more, one with
\* the value 1, and passed a deleted slot that lies before a record
C24_Witness ==
    /\ ts_scan = "done"
    /\ Len(ts_file) = 2
    /\ Len(ts_visited) >= 2
    /\ \E k \in 1..Len(ts_visited) : ts_visited[k].val = 1 /\ ts_visited[k].rid[1] = 1
    /\ \E r \in Rids : \E k \in 1..Len(ts_visited) :
          /\ Before(r, ts_visited[k].rid)
          /\ ts_file[r[1] + 1][RootOffset(r[2])] = Empty
          /\ ts_file[r[1] + 1][FieldPos(r[2])] = 1

\* ------------------------------------------------------------------- C25
\* there is an Empty slot after the position (block, slot), up to the end of the file
EmptyAfter(file, block, slot) ==
    \E r \in Rids :
       /\ r[1] < Len(file)
       /\ Before(<<block, slot>>, r)
       /\ file[r[1] + 1][RootOffset(r[2])] = Empty

\* what insert has done when it returns
InsertLanded ==
    /\ ts_slot' # None /\ IsValidSlot(ts_slot')
    /\ ts_file'[ts_block' + 1][RootOffset(ts_slot')] = Used
    /\ Cardinality(UsedSlots(ts_file')) = Cardinality(UsedSlots(ts_file)) + 1
    /\ IF EmptyAfter(ts_file, ts_block, ts_slot)
       THEN /\ Len(ts_file') = Len(ts_file)
            /\ ts_file[ts_block' + 1][RootOffset(ts_slot')] = Empty
            /\ Before(<<ts_block, ts_slot>>, <<ts_block', ts_slot'>>)
       ELSE /\ ts_file' = Append(ts_file, [Format(ZeroPage) EXCEPT ![RootOffset(ts_slot')] = Used])
            /\ ts_block' = Len(ts_file)

\* what insert_after has done when it returns
InsertAfterLanded ==
    IF \E sl \in 0..TableBlockSize :
          IsValidSlot(sl) /\ sl > ts_slot /\ ts_file[ts_block + 1][RootOffset(sl)] = Empty
    THEN /\ ts_slot' # None /\ ts_slot' > ts_slot
         /\ ts_file[ts_block + 1][RootOffset(ts_slot')] = Empty
         /\ ts_file'[ts_block + 1][RootOffset(ts_slot')] = Used
         /\ Cardinality(UsedSlots(ts_file')) = Cardinality(UsedSlots(ts_file)) + 1
    ELSE ts_slot' = None /\ ts_file' = ts_file

\* C25: insert never lands on a slot that is Used.  The slot it selects was
\* Empty before the call and is Used after it, the number of Used slots grows
\* by one, and a block is appended, formatted, only when no Empty slot lies
\* after the current position up to the end of the file.  insert_after
\* takes the Empty slots of its block one after the other, each once, and
\* returns none when no Empty slot is left after the one it is given.
C25_InsertTakesEmptySlot ==
    [][(TsInsert => InsertLanded) /\ (TsInsertAfter => InsertAfterLanded)]_vars

\* insert has appended the second block and taken its first slot, while the
\* first block is full; and a slot freed by delete was taken again
C25_Witness ==
    /\ Len(ts_file) = 2 /\ ts_block = 1 /\ ts_slot = 0
    /\ UsedSlots(ts_file) = {r \in Rids : r[1] = 0} \cup {<<1, 0>>}
    /\ ts_scan = "off"
    /\ ts_file[2][FieldPos(1)] = 0 /\ ts_file[1][FieldPos(0)] = 1
    /\ ~ts_expect[<<0, 0>>].set

\* ------------------------------------------------------------------- C26
\* C26: after before_first, each time move_next returns true both children
\* are on a record, the k-th pair is the k-th pair of s1 x s2 in s1-major
\* order, and when move_next returns false it has returned true
\* |s1| x |s2| times; for all sizes of s1 and s2, zero included.
C26_ProductVisitsAllPairs ==
    /\ \A k \in 1..Len(ps_out) :
          /\ ps_out[k][1] \in 1..ps_s1.n
          /\ ps_out[k][2] \in 1..ps_s2.n
          /\ k = (ps_out[k][1] - 1) * ps_s2.n + ps_out[k][2]
    /\ ps_state = "done" => Len(ps_out) = ps_s1.n * ps_s2.n

\* ------------------------------------------------------------------- C27
\* the pairs of records of T1 x T2, T1-major
CrossPairs == [k \in 1..(Len(qs_t1) * Len(qs_t2)) |->
                  <<((k - 1) \div Len(qs_t2)) + 1, ((k - 1) % Len(qs_t2)) + 1>>]

\* the pair of records satisfies every term of the predicate
Satisfies(pair) ==
    \A term \in qs_pred :
       qs_t1[pair[1]] = (IF term.kind = "field" THEN qs_t2[pair[2]] ELSE term.val)

\* the row a pair of records gives under the field list
RowOf(pair) == [f \in qs_fields |-> IF f = "a" THEN qs_t1[pair[1]] ELSE qs_t2[pair[2]]]

\* the rows the query selects, in order
Selected == SelectSeq(CrossPairs, Satisfies)

\* C27: the scan of "select F from T1, T2 where P" yields the rows of
\* T1 x T2, T1-major, that satisfy every term of P, each once, with the
\* fields F: move_next never fails, what it has yielded so far is the
\* beginning of that list of rows, and when it returns false it has
\* yielded all of it.
C27_QueryYieldsSelectedRows ==
    /\ qs_state # "error"
    /\ Len(qs_out) <= Len(Selected)
    /\ \A k \in 1..Len(qs_out) : k <= Len(Selected) => qs_out[k] = RowOf(Selected[k])
    /\ qs_state = "done" => Len(qs_out) = Len(Selected)

\* ------------------------------------------------------------------- C28
\* C28: RecordPage::format appends no log record, neither for the flag
\* words nor for the field words it writes: the log of the transaction is
\* the same after format as before it.
C28_FormatAppendsNoLogRecord == [][FmFormat => fm_log' = fm_log]_vars

\* ------------------------------------------------------------------- C29
\* the last call of get_field_stat found no statistics for its table in the
\* cache it was given
SmMissed == sm_last.before[sm_last.table] = None

\* the last call rebuilt the whole cache: it scanned every table of tblcat,
\* and the cache holds what it found and nothing else
SmRebuilt ==
    /\ sm_last.scanned = sm_last.tblcat
    /\ field_stats = RefreshStatistics(sm_last.tblcat, sm_last.rows)

\* the last call answered from the cache: no table scanned, the cache as it
\* was, the answer the one the cache held
SmFromCache ==
    /\ sm_last.scanned = {}
    /\ field_stats = sm_last.before
    /\ sm_last.ret = sm_last.before[sm_last.table]

OnlyChanged(from, to) ==
    /\ \A i \in DOMAIN pg_bb : (i < from \/ i >= to) => pg_bb[i] = pg_last.before[i]
    /\ \A o \in 0..(PageSize - INTEGER_BYTE_LEN) :
          (o + INTEGER_BYTE_LEN <= from \/ o >= to) =>
             PageGetInt(pg_bb, o) = PageGetInt(pg_last.before, o)

\* C30: after set_int(o, v) get_int(o) returns v, after set_bytes(o, b)
\* get_bytes(o) returns b, after set_string(o, s) get_string(o) returns s;
\* set_int changes only the bytes [o, o+4), set_bytes and set_string only
\* the bytes [o, o+4+len), len the number of bytes written, so that what is
\* stored at offsets that do not overlap them reads as before.
C30_PageRoundTripAndFrame ==
    /\ pg_last.kind = "int" =>
          /\ PageGetInt(pg_bb, pg_last.offset) = pg_last.n
          /\ OnlyChanged(pg_last.offset, pg_last.offset + INTEGER_BYTE_LEN)
    /\ pg_last.kind = "bytes" =>
          /\ PageGetBytes(pg_bb, pg_last.offset) = pg_last.b
          /\ OnlyChanged(pg_last.offset, pg_last.offset + INTEGER_BYTE_LEN + Len(pg_last.b))
    /\ pg_last.kind = "string" =>
          /\ PageGetString(pg_bb, pg_last.offset) = pg_last.s
          /\ OnlyChanged(pg_last.offset,
                         pg_last.offset + INTEGER_BYTE_LEN + Len(AsBytes(pg_last.s)))

\* a string of a two-byte and a three-byte character was set over bytes a
\* negative integer had set before
C30_Witness ==
    /\ pg_last.kind = "string"
    /\ pg_last.s = <<233, 12354>>
    /\ pg_last.offset = 1
    /\ PageGetInt(pg_last.before, 2) = -1
    /\ pg_bb # pg_last.before

\* ------------------------------------------------------------------- C31
\* C31: for every QueryData q that parse_query produced, parse_query of the
\* text q displays as produces a QueryData with the same fields, the same
\* tables and the same terms, each in the same order.
C31_ParserRoundTrip == pr_state = "reparsed" => pr_q2 = pr_q

\* a query with two fields, two tables and two terms, one with a string
\* constant holding a space and one with an integer written with leading
\* zeros, was parsed and parsed again from its display
C31_Witness ==
    /\ pr_state = "reparsed"
    /\ Len(pr_q.fields) = 2
    /\ Len(pr_q.tables) = 2
    /\ Len(pr_q.terms) = 2
    /\ pr_q.terms[1].rhs = IntExpression(7)
    /\ pr_q.terms[2].rhs = StringExpression(<<"x", " ", "y">>)
    /\ pr_input # QueryToString(pr_q)

\* ------------------------------------------------------------------- C32
\* the lock of the block after one unlock of a lock table that held n
UnlockedOnce(n) == IF n > 1 THEN n - 1 ELSE NoLock

\* C32: between two releases the lock table grants a transaction at most
\* one slock or xlock and at most one promotion per block; slock on a block
\* the transaction holds and xlock on a block it holds exclusively do not
\* call the lock table; the transaction's entry for a block is Shared or
\* Exclusive exactly when the lock table holds a lock of that kind for it,
\* and a request that timed out changes neither; release unlocks each block
\* the transaction held once, no other block, and empties its map.
C32_OneAcquisitionPerBlock ==
    /\ \A t \in Txs, b \in LockKeys :
          /\ cc_acq[t][b] = (IF cm_locks[t][b] = "None" THEN 0 ELSE 1)
          /\ cc_pro[t][b] <= 1
          /\ cc_pro[t][b] = 1 => cm_locks[t][b] = "Exclusive"
    /\ \A b \in LockKeys :
          LET shared == {t \in Txs : cm_locks[t][b] = "Shared"}
              exclusive == {t \in Txs : cm_locks[t][b] = "Exclusive"}
          IN IF exclusive # {}
             THEN locks[b] = Exclusive /\ Cardinality(exclusive) = 1 /\ shared = {}
             ELSE locks[b] = Cardinality(shared)
    /\ (cc_last.op = "slock" /\ cc_last.cm[cc_last.t][cc_last.blk] # "None") => ~cc_last.called
    /\ (cc_last.op = "xlock" /\ cc_last.cm[cc_last.t][cc_last.blk] = "Exclusive") => ~cc_last.called
    /\ (cc_last.op \in {"slock", "xlock"} /\ cc_last.err # "Ok") =>
          /\ cc_last.err = "Timeout"
          /\ cm_locks = cc_last.cm
          /\ locks = cc_last.locks
    /\ cc_last.op = "release" =>
          /\ cc_last.err = "Ok"
          /\ \A b \in LockKeys : cm_locks[cc_last.t][b] = "None"
          /\ \A b \in LockKeys :
                locks[b] = IF cc_last.cm[cc_last.t][b] # "None"
                           THEN UnlockedOnce(cc_last.locks[b]) ELSE cc_last.locks[b]

\* a transaction that shares a block with another one asked for the
\* exclusive lock and timed out, and still holds its shared lock
C32_Witness ==
    /\ cc_last.op = "xlock"
    /\ cc_last.err = "Timeout"
    /\ cc_last.cm[cc_last.t][cc_last.blk] = "Shared"
    /\ locks[cc_last.blk] = 2
    /\ \E b \in LockKeys : cc_pro[cc_last.t][b] = 1

\* ---- C33
\* the thread is in the wait loop of its n-th pin call, its waiting time is
\* not spent, and some buffer is not pinned
PwWaitsWithFree(th, n) ==
    /\ pw_pc[th] \in {"lock", "waiting", "retry"}
    /\ pw_calls[th] = n
    /\ ~pw_expired[th]
    /\ ChooseUnpinnedBuffer(buffer_pool) # NoBuf

\* the n-th pin call of the thread returned a buffer, or every buffer is
\* pinned again
PwPinnedOrTaken(th, n) ==
    \/ pw_pc[th] = "Ok" /\ pw_calls[th] = n
    \/ ChooseUnpinnedBuffer(buffer_pool) = NoBuf

\* pin returns Err(Pin) only after a wait, with its waiting time spent, and
\* when its last try_to_pin found no buffer it could take
PwFailsOnlyAtLastRetry ==
    \A th \in Threads :
        pw_pc[th] = "Pin" => /\ ~pw_free[th]
                             /\ pw_retried[th]

\* C33: a pin call that found every buffer pinned gets a buffer once one is
\* unpinned before its waiting time is spent, unless another thread pins it
\* first, also when the notification of the unpin came before the caller was
\* in wait_timeout; and pin returns the Pin error only when its last
\* try_to_pin, made after a wait, found no buffer free
C33_WaiterPinsAfterUnpin ==
    /\ []PwFailsOnlyAtLastRetry
    /\ \A th \in Threads, n \in 1..MaxPinCalls :
           PwWaitsWithFree(th, n) ~> PwPinnedOrTaken(th, n)

\* a pin call got its buffer at a retry after it missed the notification of
\* the unpin that freed it
C33_Witness ==
    \E th \in Threads :
        /\ pw_pc[th] = "Ok"
        /\ pw_missed[th]
        /\ pw_retried[th]

\* ---- C34
\* the thread is inside promote_to_xlock while another thread holds a shared
\* lock on the block
UpgradeBlocked(th) ==
    /\ lt_op[th] = "promote"
    /\ lt_pc[th] # "idle"
    /\ \E u \in Lockers \ {th} : lt_holds[u] = "Shared"

\* the call of the thread returns in this step
LtReturns(th) == lt_pc[th] # "idle" /\ lt_pc'[th] = "idle"

\* a lock call that returned has succeeded or timed out
LtOkOrTimeout ==
    \A th \in Lockers :
        lt_pc[th] = "idle" /\ lt_op[th] \in {"slock", "xlock", "promote"}
            => lt_res[th] \in {"Ok", "Timeout"}

\* C34: every slock, xlock and promote_to_xlock call returns, with success or
\* Timeout; a promote_to_xlock that returns while another thread holds a
\* shared lock on the block returns Timeout and leaves the lock and the
\* shared locks of the threads as they were, so two threads that hold a shared
\* lock and both promote both time out and keep their shared locks
C34_LockCallsTerminate ==
    /\ \A th \in Lockers : (lt_pc[th] # "idle") ~> (lt_pc[th] = "idle")
    /\ []LtOkOrTimeout
    /\ [][\A th \in Lockers :
              UpgradeBlocked(th) /\ LtReturns(th)
                  => /\ lt_res'[th] = "Timeout"
                     /\ lt_lock' = lt_lock
                     /\ lt_holds' = lt_holds]_vars

\* two threads that both held a shared lock both called promote_to_xlock, and
\* both calls returned Timeout
C34_Witness ==
    \E t1 \in Lockers, t2 \in Lockers :
        /\ t1 # t2
        /\ lt_lock = 2
        /\ \A th \in {t1, t2} : /\ lt_op[th] = "promote"
                                /\ lt_pc[th] = "idle"
                                /\ lt_res[th] = "Timeout"
                                /\ lt_holds[th] = "Shared"

\* ---- C35
\* the k-th record of the scan satisfies every term of the predicate
SatisfiesAt(c, pred, k) ==
    \A term \in pred :
        c[term.lhs][k] = (IF term.kind = "field" THEN c[term.rhs][k] ELSE term.val)

\* the positions 1..k of the scan whose records satisfy the predicate, in order
RECURSIVE FilteredUpTo(_, _, _)
FilteredUpTo(c, pred, k) ==
    IF k = 0 THEN <<>>
    ELSE FilteredUpTo(c, pred, k - 1) \o (IF SatisfiesAt(c, pred, k) THEN <<k>> ELSE <<>>)

\* C35: in a SelectScan read with before_first and move_next, the records
\* move_next returned true on are the records of the scan below up to its
\* position that satisfy the predicate, in its order; move_next returns true
\* on a record that satisfies the predicate, and false with the scan below
\* exhausted
C35_SelectFiltersChild ==
    sl_wrap = "select" /\ sl_scanning =>
        /\ sl_out = FilteredUpTo(sl_child, sl_pred,
                                 IF sl_child.pos > sl_child.n THEN sl_child.n ELSE sl_child.pos)
        /\ sl_last.op = "move_next" =>
               /\ sl_last.res \in {"true", "false"}
               /\ sl_last.res = "true" =>
                      sl_child.pos \in 1..sl_child.n /\ SatisfiesAt(sl_child, sl_pred, sl_child.pos)
               /\ sl_last.res = "false" => sl_child.pos = sl_child.n + 1

\* a move_next that skipped a record and returned false: the scan below has
\* two records, the first of them satisfies the predicate, the second not
C35_Witness ==
    /\ sl_wrap = "select" /\ sl_scanning
    /\ sl_child.n = 2
    /\ sl_last.op = "move_next" /\ sl_last.res = "false"
    /\ sl_last.called = 2
    /\ sl_out = <<1>>

\* ---- C36
\* C36: ProjectScan::new fails when a field of the list is not a field of
\* the scan below; get_val and set_val of a field that is not in the list
\* fail with no call of the scan below; insert, delete, set_val, move_to_rid
\* and get_rid of a SelectScan or ProjectScan over a ReadOnly scan fail with
\* InvalidCall, make no call of the scan below and leave it as it was
C36_InvalidCallsLeaveChild ==
    /\ sl_last.op = "new_project" /\ (\E f \in sl_fields : f \notin ChildFields)
           => sl_wrap = "failed" /\ sl_last.res = "InvalidCall"
    /\ sl_wrap = "project" /\ sl_last.op \in {"get_val", "set_val"} /\ sl_last.f \notin sl_fields
           => /\ sl_last.res = "InvalidCall"
              /\ sl_last.called = 0
              /\ sl_last.same
    /\ sl_wrap \in {"select", "project"} /\ sl_last.op \in UpdateOps /\ sl_child.kind = "ReadOnly"
           => /\ sl_last.res = "InvalidCall"
              /\ sl_last.called = 0
              /\ sl_last.same

\* set_val of a field of the list was called on a ProjectScan over a
\* ReadOnly scan that is on a record
C36_Witness ==
    /\ sl_wrap = "project"
    /\ sl_child.kind = "ReadOnly"
    /\ sl_child.pos \in 1..sl_child.n
    /\ sl_last.op = "set_val" /\ sl_last.f \in sl_fields
    /\ sl_last.res = "InvalidCall"

\* ---- C37
\* C37: no two buffers of the pool are assigned the same block
C37_OneBufferPerBlock ==
    \A i \in DupBuffers, j \in DupBuffers :
        i # j /\ dp_pool[i].block # None => dp_pool[i].block # dp_pool[j].block

\* ---- C38
\* the transaction calls recover with no pin of its own, no buffer pinned
RecoverWithNoPin(t) ==
    /\ Recover(t)
    /\ num_available = NumBuffs
    /\ \A b \in Blocks : bl_pins[t][b] = 0

\* recover returns Ok and every buffer is available after it
C38_PinsReleased ==
    [][\A t \in Txs : RecoverWithNoPin(t) /\ tx_status'[t] = "active"
                          => num_available' = NumBuffs]_vars

\* recover returns Ok
C38_RecoverCompletes ==
    [][\A t \in Txs : RecoverWithNoPin(t) => tx_status'[t] = "active"]_vars

\* C38: a recover called with no buffer pinned returns Ok, whatever the
\* blocks of the records it replays, and leaves no buffer pinned: the
\* available count is the size of the pool after it
C38_RecoverLeavesNoPin ==
    [][\A t \in Txs : RecoverWithNoPin(t)
                          => /\ tx_status'[t] = "active"
                             /\ num_available' = NumBuffs
                             /\ \A i \in Buffers : ~IsPinned(buffer_pool'[i])]_vars

\* ---- C39
\* the records of the log file after its last CheckPoint
DiskSegment == Segment(DiskRecs(St))

\* a write of the log is of a transaction with no Commit record after it, and
\* a Commit record with the number of that transaction comes before it
CommitOfEarlierTx(recs) ==
    \E k \in 1..Len(recs) :
        /\ recs[k].op = "SetInt"
        /\ \E c \in 1..(k - 1) : recs[c].op = "Commit" /\ recs[c].tx = recs[k].tx
        /\ \A c \in (k + 1)..Len(recs) : ~(recs[c].op = "Commit" /\ recs[c].tx = recs[k].tx)

\* recover does not take a write of a transaction that did not commit for
\* the write of a committed one
C39_NoUncommittedRedo ==
    [][\A t \in Txs : Recover(t) => ~CommitOfEarlierTx(Segment(AllRecs(St)))]_vars

\* C39: the Start records of the log file after its last CheckPoint carry
\* different transaction numbers, also after the process was started again
\* over the log with no recover
C39_UniqueTxNums ==
    \A j \in 1..Len(DiskSegment), k \in 1..Len(DiskSegment) :
        j # k /\ DiskSegment[j].op = "Start" /\ DiskSegment[k].op = "Start"
            => DiskSegment[j].tx # DiskSegment[k].tx

\* ---- C40
\* the records without the Start records at the newest end
RECURSIVE StripStarts(_)
StripStarts(recs) ==
    IF recs # <<>> /\ recs[Len(recs)].op = "Start"
    THEN StripStarts(SubSeq(recs, 1, Len(recs) - 1))
    ELSE recs

\* nothing but Start records was logged since a recover wrote its CheckPoint
NoActivitySinceRecover ==
    LET recs == StripStarts(AllRecs(St))
    IN recs # <<>> /\ recs[Len(recs)].op = "CheckPoint"

\* C40: a recover that runs when no record but Start records follows the
\* CheckPoint record of an earlier recover returns Ok; its undo and redo
\* stages pin no block and change no buffer and no block (they stop at that
\* CheckPoint); the whole call leaves the buffers and every block of the
\* data file as they were and appends one more CheckPoint record to the log.
C40_RecoverIdempotent ==
    [][\A t \in Txs :
          (NoActivitySinceRecover /\ Recover(t)) =>
             LET r == DoRecover(St, t, tx_num[t])
             IN /\ r.err = "Ok"
                /\ r.m.pool = St.pool
                /\ r.m.disk = St.disk
                /\ r.m.pins = St.pins
                /\ r.m.bufs = St.bufs
                /\ r.m.avail = St.avail
                /\ disk' = disk
                /\ buffer_pool' = buffer_pool
                /\ tx_status'[t] = "active"
                /\ AllRecs(St)' = Append(AllRecs(St), CheckPointRec)
                /\ DiskRecs(St)' = AllRecs(St)']_vars

\* a recover has undone a write that changed the value, and a second recover
\* has run with nothing but Start records after the CheckPoint of the first
C40_Witness ==
    LET recs == AllRecs(St)
    IN \E j \in 1..Len(recs), k \in 1..Len(recs) :
          /\ j < k /\ k < Len(recs)
          /\ recs[j].op = "SetInt" /\ recs[j].old # recs[j].new
          /\ recs[k].op = "CheckPoint"
          /\ recs[Len(recs)].op = "CheckPoint"
          /\ \A i \in (j + 1)..(k - 1) : recs[i].op \notin {"Commit", "CheckPoint"}
          /\ \A i \in (k + 1)..(Len(recs) - 1) : recs[i].op = "Start"
====
